---- MODULE Spec2Model ----
(***************************************************************************)
(* Model of the MercuriesOST scanning engine                               *)
(*   public/osint/google-osint.go     SearchProfilesSequentially and its   *)
(*                                    goroutines, processSingleProfile,    *)
(*                                    checkProfile, memoryManager,         *)
(*                                    rateTracker, extractRecentActivity,  *)
(*                                    extractConnections, cleanText        *)
(*   public/osint/validate-profile.go ValidateProfile                      *)
(*                                                                         *)
(* Strings that the code takes apart (search terms) are sequences of       *)
(* one-character strings; confidences are hundredths (0.7 is 70).          *)
(***************************************************************************)
EXTENDS Integers, Sequences, FiniteSets, TLC

(***************************************************************************)
(* Bounds of the model.                                                    *)
(***************************************************************************)
\* Number of worker goroutines; stands for acc.maxWorkers (20, 100 or 200).
NumWorkers == 2
\* Number of catalog platforms that are scanned (a prefix of the catalog).
NumPlatforms == 1
\* Number of search terms of the non-empty query.
NumTerms == 2

(***************************************************************************)
(* Program constants.                                                      *)
(***************************************************************************)
maxConcurrentScans == 5
scanRateLimit == 10
maxRetries == 2
memMaxItems == 100

gpuBatchSize == 500
gpuMaxWorkers == 100
gpuMaxConns == 200
tpuBatchSize == 1000
tpuMaxWorkers == 200
tpuMaxConns == 400
defaultBatchSize == 50
defaultMaxWorkers == 20
defaultMaxConns == 50

StatusOK == 200
StatusForbidden == 403
StatusNotFound == 404
StatusTooManyRequests == 429

Workers == 1..NumWorkers

Min(a, b) == IF a < b THEN a ELSE b

(***************************************************************************)
(* The platform catalog: name, base URL and profile pattern.               *)
(***************************************************************************)
AllPlatforms ==
  << [Name |-> "Twitter",   URL |-> "https://twitter.com/",         ProfilePattern |-> "%s"],
     [Name |-> "Instagram", URL |-> "https://www.instagram.com/",   ProfilePattern |-> "%s/"],
     [Name |-> "Facebook",  URL |-> "https://www.facebook.com/",    ProfilePattern |-> "%s"],
     [Name |-> "LinkedIn",  URL |-> "https://www.linkedin.com/in/", ProfilePattern |-> "%s/"],
     [Name |-> "GitHub",    URL |-> "https://github.com/",          ProfilePattern |-> "%s"],
     [Name |-> "Reddit",    URL |-> "https://www.reddit.com/user/", ProfilePattern |-> "%s"],
     [Name |-> "TikTok",    URL |-> "https://www.tiktok.com/@",     ProfilePattern |-> "%s"] >>

platforms == SubSeq(AllPlatforms, 1, Min(NumPlatforms, Len(AllPlatforms)))

\* Whether the catalog gives the platform an ActivitySelector and a
\* ConnectionsSelector (the selector is not "")
HasActivitySelector(platform) == TRUE
HasConnectionsSelector(platform) == platform.Name \notin {"Reddit", "TikTok"}

\* Byte order of the platform names, as Go's < on strings orders them.
NameRank ==
  [n \in {"Facebook", "GitHub", "Instagram", "LinkedIn", "Reddit", "TikTok", "Twitter"} |->
     CASE n = "Facebook"  -> 1
       [] n = "GitHub"    -> 2
       [] n = "Instagram" -> 3
       [] n = "LinkedIn"  -> 4
       [] n = "Reddit"    -> 5
       [] n = "TikTok"    -> 6
       [] n = "Twitter"   -> 7]

PlatformLess(a, b) == NameRank[a.Platform] < NameRank[b.Platform]

(***************************************************************************)
(* Search terms.  Term(1) is the query itself ("J S"), Term(2) the         *)
(* first+last variation ("js"), Term(3) the lower-case first name, the     *)
(* following ones the first name with a numeric suffix.                    *)
(***************************************************************************)
Term(k) ==
  CASE k = 1 -> <<"J", " ", "S">>
    [] k = 2 -> <<"j", "s">>
    [] OTHER -> <<"j">> \o [i \in 1..(k - 3) |-> "1"]

QueryTerms == [k \in 1..NumTerms |-> Term(k)]

\* strings.ToLower on one character
ToLowerChar(c) ==
  CASE c = "J" -> "j"
    [] c = "S" -> "s"
    [] OTHER -> c

\* strings.ToLower
ToLower(s) == [i \in 1..Len(s) |-> ToLowerChar(s[i])]

\* strings.ReplaceAll(s, old, "") for a one-character old
RECURSIVE RemoveAll(_, _)
RemoveAll(s, old) ==
  IF s = <<>> THEN <<>>
  ELSE IF Head(s) = old THEN RemoveAll(Tail(s), old)
       ELSE <<Head(s)>> \o RemoveAll(Tail(s), old)

\* fmt.Sprintf(pattern, urlTerm) for the two patterns of the catalog
FormatPattern(pattern, urlTerm) ==
  IF pattern = "%s/" THEN urlTerm \o <<"/">> ELSE urlTerm

\* processSingleProfile: the URL probed for (platform, term)
ProfileURL(platform, term) ==
  <<platform.URL>> \o FormatPattern(platform.ProfilePattern, ToLower(RemoveAll(term, " ")))

(***************************************************************************)
(* variations.GetNameVariations.  A name is a sequence of one-character    *)
(* strings; the result is the set of keys of the variations map.           *)
(***************************************************************************)
\* The vertical tab, written as its escape
VT == "\\v"

\* unicode.IsSpace on the characters of the model
IsSpace(c) == c \in {" ", "\t", "\n", VT, "\f", "\r"}

\* strings.TrimSpace
RECURSIVE TrimLeft(_)
TrimLeft(s) ==
  IF s # <<>> /\ IsSpace(Head(s)) THEN TrimLeft(Tail(s)) ELSE s

RECURSIVE TrimRight(_)
TrimRight(s) ==
  IF s # <<>> /\ IsSpace(s[Len(s)]) THEN TrimRight(SubSeq(s, 1, Len(s) - 1)) ELSE s

TrimSpace(s) == TrimRight(TrimLeft(s))

\* strings.Fields: the maximal runs of characters that are not white space
RECURSIVE FieldsFrom(_, _)
FieldsFrom(s, cur) ==
  IF s = <<>> THEN (IF cur = <<>> THEN <<>> ELSE <<cur>>)
  ELSE IF IsSpace(Head(s))
       THEN (IF cur = <<>> THEN <<>> ELSE <<cur>>) \o FieldsFrom(Tail(s), <<>>)
       ELSE FieldsFrom(Tail(s), Append(cur, Head(s)))

Fields(s) == FieldsFrom(s, <<>>)

\* GetNameVariations, line 27: len(parts) == 0
NoParts(parts) == Len(parts) = 0

\* One decimal digit as a character
DigitChar(d) ==
  CASE d = 0 -> "0" [] d = 1 -> "1" [] d = 2 -> "2" [] d = 3 -> "3" [] d = 4 -> "4"
    [] d = 5 -> "5" [] d = 6 -> "6" [] d = 7 -> "7" [] d = 8 -> "8" [] d = 9 -> "9"

\* fmt.Sprintf("%d", n) for n >= 0
RECURSIVE Itoa(_)
Itoa(n) ==
  IF n < 10 THEN <<DigitChar(n)>> ELSE Append(Itoa(n \div 10), DigitChar(n % 10))

\* s[0:n] (the callers make sure that n <= len(s))
Prefix(s, n) == SubSeq(s, 1, n)

\* strings.ReplaceAll(s, old, new) for one-character old and new
ReplaceAllChar(s, old, new) == [i \in 1..Len(s) |-> IF s[i] = old THEN new ELSE s[i]]

\* strings.Contains(s, c) for a one-character c
HasChar(s, c) == \E i \in 1..Len(s) : s[i] = c

\* GetNameVariations, lines 51-56: truncations of the first name
Truncations(firstName) ==
  IF Len(firstName) >= 3
  THEN {ToLower(Prefix(firstName, i)) : i \in {j \in 3..5 : j <= Len(firstName)}}
  ELSE {}

\* GetNameVariations, lines 64-87: commonPatterns
commonPatterns(lowerFirst, lowerLast) ==
  { lowerFirst \o lowerLast,
    lowerFirst \o <<".">> \o lowerLast,
    lowerFirst \o <<"_">> \o lowerLast,
    lowerLast \o lowerFirst,
    lowerLast \o <<".">> \o lowerFirst,
    lowerLast \o <<"_">> \o lowerFirst,
    Prefix(lowerFirst, 1) \o lowerLast,
    lowerFirst \o Prefix(lowerLast, 1),
    Prefix(lowerFirst, 1) \o <<".">> \o lowerLast,
    Prefix(lowerFirst, 1) \o <<"_">> \o lowerLast }
  \cup
  (IF Len(lowerFirst) >= 2 /\ Len(lowerLast) >= 2
   THEN { Prefix(lowerFirst, 2) \o lowerLast,
          Prefix(lowerFirst, 2) \o <<".">> \o lowerLast,
          Prefix(lowerFirst, 2) \o <<"_">> \o lowerLast,
          lowerFirst \o Prefix(lowerLast, 2),
          lowerFirst \o <<".">> \o Prefix(lowerLast, 2),
          lowerFirst \o <<"_">> \o Prefix(lowerLast, 2) }
   ELSE {})

\* GetNameVariations, lines 95-99: commonNumberPatterns
commonNumberPatterns(lowerFirst, lowerLast) ==
  { lowerFirst \o lowerLast, Prefix(lowerFirst, 1) \o lowerLast, lowerLast \o lowerFirst }

\* GetNameVariations, lines 102-107: years of a name with a last name
YearsTwoNames(currentYear) ==
  { <<"1">>, <<"1", "2", "3">>, <<"3", "2", "1">> }
  \cup {Itoa(y) : y \in (currentYear - 30)..currentYear}
  \cup {Itoa(y % 100) : y \in (currentYear - 30)..currentYear}

\* GetNameVariations, lines 140-144: years of a single name
YearsSingleName(currentYear) ==
  { <<"1", "2", "3">>, <<"3", "2", "1">> }
  \cup {Itoa(y % 100) : y \in (currentYear - 20)..currentYear}

\* GetNameVariations, lines 120-128: l33tMap
l33tMap ==
  { <<"a", "@">>, <<"e", "3">>, <<"i", "1">>, <<"o", "0">>, <<"s", "5">>,
    <<"t", "7">>, <<"u", "v">> }

\* GetNameVariations, lines 119-137
Leet(basePattern) ==
  {ReplaceAllChar(basePattern, m[1], m[2]) : m \in {x \in l33tMap : HasChar(basePattern, x[1])}}

\* Values of time.Now().Year()
CurrentYears == {2026, 2040}

\* GetNameVariations(fullName); currentYear is time.Now().Year()
GetNameVariations(name, currentYear) ==
  LET fullName == TrimSpace(name)
      parts == Fields(fullName)
  IN
  IF NoParts(parts) THEN {}
  ELSE
  LET firstName == parts[1]
      lastName == IF Len(parts) > 1 THEN parts[Len(parts)] ELSE <<>>
      lowerFirst == ToLower(firstName)
      lowerLast == ToLower(lastName)
  IN
  {fullName, lowerFirst} \cup Truncations(firstName) \cup
  (IF lastName # <<>>
   THEN {lowerLast}
        \cup commonPatterns(lowerFirst, lowerLast)
        \cup {pattern \o num : pattern \in commonNumberPatterns(lowerFirst, lowerLast),
                               num \in YearsTwoNames(currentYear)}
        \cup Leet(lowerFirst \o lowerLast)
   ELSE {lowerFirst \o num : num \in YearsSingleName(currentYear)})

(***************************************************************************)
(* Page content.  A response body is a set of text fragments; the tables   *)
(* record which of the strings the code searches for occur in which        *)
(* fragment (Has: strings.Contains, HasFold: case-insensitive containment, *)
(* ReMatch: the regular expressions).  A double quote of the source is     *)
(* written '' here.                                                        *)
(***************************************************************************)
Fragments ==
  {"page isn't available",
   "page not found",
   "user not found",
   "doesn't exist",
   "isn't available",
   "account has been suspended",
   "account doesn't exist",
   "this account is private",
   "this profile isn't available",
   "sorry, this page isn't available",
   "the link you followed may be broken",
   "Page Not Found",
   "Sorry, this page isn't available.",
   "''This account doesn't exist''",
   "User not found",
   "content not found",
   "page you requested cannot be displayed",
   "this page doesn't exist",
   "Sorry, nobody on Reddit goes by that name",
   "@js",
   "a@b",
   "verified_user",
   "VerifiedAccount",
   "''user'':{''biography'':''x'',''id'':''1''",
   "''is_verified'':true",
   "''pageID''",
   "experience-section",
   "education-section",
   "skills-section",
   "42 karma",
   "redditor for",
   "Posts",
   "Followers",
   "Following",
   "Comments",
   "Bio",
   "Profile photo",
   "Cover photo",
   "1,024 followers"}

Has ==
   "page isn't available" :> {"isn't available"} @@
   "page not found" :> {"page not found"} @@
   "user not found" :> {} @@
   "doesn't exist" :> {} @@
   "isn't available" :> {"isn't available"} @@
   "account has been suspended" :> {} @@
   "account doesn't exist" :> {} @@
   "this account is private" :> {} @@
   "this profile isn't available" :> {"isn't available"} @@
   "sorry, this page isn't available" :> {"isn't available"} @@
   "the link you followed may be broken" :> {} @@
   "Page Not Found" :> {} @@
   "Sorry, this page isn't available." :> {"Sorry, this page", "isn't available"} @@
   "''This account doesn't exist''" :> {"''This account doesn't exist''"} @@
   "User not found" :> {"User not found"} @@
   "content not found" :> {"content not found"} @@
   "page you requested cannot be displayed" :> {"page you requested cannot be displayed"} @@
   "this page doesn't exist" :> {"this page doesn't exist"} @@
   "Sorry, nobody on Reddit goes by that name" :> {"Sorry, nobody on Reddit goes by that name"} @@
   "@js" :> {} @@
   "a@b" :> {} @@
   "verified_user" :> {"verified_user"} @@
   "VerifiedAccount" :> {"VerifiedAccount"} @@
   "''user'':{''biography'':''x'',''id'':''1''" :> {} @@
   "''is_verified'':true" :> {"''is_verified'':true"} @@
   "''pageID''" :> {"''pageID''"} @@
   "experience-section" :> {"experience-section"} @@
   "education-section" :> {"education-section"} @@
   "skills-section" :> {"skills-section"} @@
   "42 karma" :> {} @@
   "redditor for" :> {"redditor for"} @@
   "Posts" :> {} @@
   "Followers" :> {} @@
   "Following" :> {} @@
   "Comments" :> {} @@
   "Bio" :> {} @@
   "Profile photo" :> {} @@
   "Cover photo" :> {} @@
   "1,024 followers" :> {}

HasFold ==
   "page isn't available" :> {"page isn't available", "isn't available"} @@
   "page not found" :> {"page not found"} @@
   "user not found" :> {"user not found"} @@
   "doesn't exist" :> {"doesn't exist"} @@
   "isn't available" :> {"isn't available"} @@
   "account has been suspended" :> {"account has been suspended"} @@
   "account doesn't exist" :> {"doesn't exist", "account doesn't exist"} @@
   "this account is private" :> {"this account is private"} @@
   "this profile isn't available" :> {"isn't available", "this profile isn't available"} @@
   "sorry, this page isn't available" :> {"page isn't available", "isn't available", "sorry, this page isn't available"} @@
   "the link you followed may be broken" :> {"the link you followed may be broken"} @@
   "Page Not Found" :> {"page not found"} @@
   "Sorry, this page isn't available." :> {"page isn't available", "isn't available", "sorry, this page isn't available"} @@
   "''This account doesn't exist''" :> {"doesn't exist", "account doesn't exist"} @@
   "User not found" :> {"user not found"} @@
   "content not found" :> {} @@
   "page you requested cannot be displayed" :> {} @@
   "this page doesn't exist" :> {"doesn't exist"} @@
   "Sorry, nobody on Reddit goes by that name" :> {} @@
   "@js" :> {} @@
   "a@b" :> {} @@
   "verified_user" :> {} @@
   "VerifiedAccount" :> {} @@
   "''user'':{''biography'':''x'',''id'':''1''" :> {"Bio"} @@
   "''is_verified'':true" :> {} @@
   "''pageID''" :> {} @@
   "experience-section" :> {} @@
   "education-section" :> {} @@
   "skills-section" :> {} @@
   "42 karma" :> {} @@
   "redditor for" :> {} @@
   "Posts" :> {"Posts"} @@
   "Followers" :> {"Followers"} @@
   "Following" :> {"Following"} @@
   "Comments" :> {"Comments"} @@
   "Bio" :> {"Bio"} @@
   "Profile photo" :> {"Profile photo"} @@
   "Cover photo" :> {"Cover photo"} @@
   "1,024 followers" :> {"Followers"}

ReMatch ==
   "page isn't available" :> {} @@
   "page not found" :> {} @@
   "user not found" :> {} @@
   "doesn't exist" :> {} @@
   "isn't available" :> {} @@
   "account has been suspended" :> {} @@
   "account doesn't exist" :> {} @@
   "this account is private" :> {} @@
   "this profile isn't available" :> {} @@
   "sorry, this page isn't available" :> {} @@
   "the link you followed may be broken" :> {} @@
   "Page Not Found" :> {} @@
   "Sorry, this page isn't available." :> {} @@
   "''This account doesn't exist''" :> {} @@
   "User not found" :> {} @@
   "content not found" :> {} @@
   "page you requested cannot be displayed" :> {} @@
   "this page doesn't exist" :> {} @@
   "Sorry, nobody on Reddit goes by that name" :> {} @@
   "@js" :> {"@", "@js"} @@
   "a@b" :> {"@"} @@
   "verified_user" :> {} @@
   "VerifiedAccount" :> {} @@
   "''user'':{''biography'':''x'',''id'':''1''" :> {"re:user-biography-id"} @@
   "''is_verified'':true" :> {} @@
   "''pageID''" :> {} @@
   "experience-section" :> {} @@
   "education-section" :> {} @@
   "skills-section" :> {} @@
   "42 karma" :> {"re:karma"} @@
   "redditor for" :> {} @@
   "Posts" :> {} @@
   "Followers" :> {} @@
   "Following" :> {} @@
   "Comments" :> {} @@
   "Bio" :> {} @@
   "Profile photo" :> {} @@
   "Cover photo" :> {} @@
   "1,024 followers" :> {}

\* strings.Contains(bodyContent, needle)
Contains(body, needle) == \E f \in body : needle \in Has[f]

\* strings.Contains(strings.ToLower(bodyContent), strings.ToLower(needle)), (?i)needle
ContainsFold(body, needle) == \E f \in body : needle \in HasFold[f]

\* regexp match of bodyContent
Matches(body, re) == \E f \in body : re \in ReMatch[f]

\* fmt.Sprintf(`@%s`, regexp.QuoteMeta(username))
UsernamePattern(username) == IF username = "" THEN "@" ELSE "@js"

nonExistentPhrases ==
  << "page isn't available", "page not found", "user not found", "doesn't exist",
     "isn't available", "account has been suspended", "account doesn't exist",
     "this account is private", "this profile isn't available",
     "sorry, this page isn't available", "the link you followed may be broken" >>

\* The keys and messages of realUserIndicators (a Go map: the order in which
\* its markers are appended is not fixed; the list order is used here).
realUserIndicators ==
  << <<"Posts", "Found user posts">>, <<"Followers", "Has followers">>,
     <<"Following", "Is following others">>, <<"Comments", "Has comments">>,
     <<"Bio", "Has biography">>, <<"Profile photo", "Has profile photo">>,
     <<"Cover photo", "Has cover photo">> >>

\* Values of finalURL: "" (no redirect), "=url" (redirected to the requested
\* URL), "other", and a URL containing facebook.com/pages_reaction_units.
FinalURLs == {"", "=url", "other", "facebook.com/pages_reaction_units"}

\* The markers of a sequence of <<flag, marker>> pairs whose flag is set
RECURSIVE MarkersOf(_)
MarkersOf(pairs) ==
  IF pairs = <<>> THEN <<>>
  ELSE (IF Head(pairs)[1] THEN <<Head(pairs)[2]>> ELSE <<>>) \o MarkersOf(Tail(pairs))

\* Variant of Negative: the reason is not recorded
NegativeNoReason(r, conf, reason) == [r EXCEPT !.IsValid = FALSE, !.Confidence = conf]

\* ValidateProfile, lines 121-124, 139-142, 161-164, 184-195, 211-214 and
\* 233-236: a hard negative signal was found
Negative(r, conf, reason) ==
  [r EXCEPT !.IsValid = FALSE, !.Confidence = conf, !.ErrorReason = reason]

\* Variant of IsFastPathStatus: the status switch has no case
IsFastPathStatusNone(status) == FALSE

\* ValidateProfile, lines 82-94: the statuses the switch returns on
IsFastPathStatus(status) ==
  status \in {StatusNotFound, StatusForbidden, StatusTooManyRequests}

\* ValidateProfile, lines 133-251: the platform-specific validation of a 200
\* response.  Returns the result and whether the function returned there.
PlatformValidation(platform, username, resp, r) ==
  LET body == resp.body
      neg(conf, reason) == [res |-> Negative(r, conf, reason), returned |-> TRUE]
      go(res) == [res |-> res, returned |-> FALSE]
  IN
  CASE platform.Name \in {"Twitter", "X"} ->
         IF Contains(body, "''This account doesn't exist''") \/ Contains(body, "User not found")
         THEN neg(95, "Account doesn't exist (content analysis)")
         ELSE LET m1 == Matches(body, UsernamePattern(username))
                  m2 == Contains(body, "verified_user") \/ Contains(body, "VerifiedAccount")
                  c1 == IF m1 THEN 95 ELSE r.Confidence
                  c2 == IF m2 THEN 99 ELSE c1
              IN go([r EXCEPT !.Confidence = c2,
                              !.Markers = @ \o MarkersOf(<< <<m1, "Username found in page content">>,
                                                            <<m2, "Verified account">> >>)])
    [] platform.Name = "Instagram" ->
         IF Contains(body, "Sorry, this page") /\ Contains(body, "isn't available")
         THEN neg(95, "Page not available (content analysis)")
         ELSE LET m1 == Matches(body, "re:user-biography-id")
                  m2 == Contains(body, "''is_verified'':true")
                  c1 == IF m1 THEN 95 ELSE r.Confidence
                  c2 == IF m2 THEN 99 ELSE c1
              IN go([r EXCEPT !.Confidence = c2,
                              !.Markers = @ \o MarkersOf(<< <<m1, "User data found in page content">>,
                                                            <<m2, "Verified account">> >>)])
    [] platform.Name = "Facebook" ->
         IF Contains(body, "content not found")
            \/ Contains(body, "page you requested cannot be displayed")
         THEN neg(95, "Content not found (content analysis)")
         ELSE IF resp.finalURL = "facebook.com/pages_reaction_units"
         THEN neg(90, "Redirected to error page")
         ELSE IF Contains(body, "''pageID''")
         THEN go([r EXCEPT !.ProfileType = "page",
                           !.Markers = Append(@, "Business/Fan page detected")])
         ELSE go([r EXCEPT !.ProfileType = "personal",
                           !.Markers = Append(@, "Personal profile detected")])
    [] platform.Name = "LinkedIn" ->
         IF Contains(body, "page not found") \/ Contains(body, "this page doesn't exist")
         THEN neg(95, "Page not found (content analysis)")
         ELSE LET profileSections ==
                    Cardinality({s \in {"experience-section", "education-section",
                                        "skills-section"} : Contains(body, s)})
              IN IF profileSections > 0
                 THEN go([r EXCEPT !.Confidence = @ + profileSections * 5,
                                   !.Markers = Append(@, "Found profile sections")])
                 ELSE go(r)
    [] platform.Name = "Reddit" ->
         IF Contains(body, "Sorry, nobody on Reddit goes by that name")
         THEN neg(95, "User doesn't exist (content analysis)")
         ELSE LET m1 == Matches(body, "re:karma")
                  m2 == Contains(body, "redditor for")
                  c1 == IF m1 THEN 90 ELSE r.Confidence
                  c2 == IF m2 THEN c1 + 5 ELSE c1
              IN go([r EXCEPT !.Confidence = c2,
                              !.Markers = @ \o MarkersOf(<< <<m1, "Karma count found - active account">>,
                                                            <<m2, "Account age indicator found">> >>)])
    [] OTHER -> go(r)

\* Variant of CapConfidence: no cap
CapConfidenceNone(c) == c

\* ValidateProfile, lines 279-282: cap confidence at 1.0
CapConfidence(c) == IF c > 100 THEN 100 ELSE c

\* ValidateProfile, lines 253-282: the cross-platform indicators and the cap
IndicatorValidation(resp, r) ==
  LET found == [i \in 1..Len(realUserIndicators) |->
                  <<ContainsFold(resp.body, realUserIndicators[i][1]), realUserIndicators[i][2]>>]
      indicatorsFound == Cardinality({i \in 1..Len(found) : found[i][1]})
      c == IF indicatorsFound > 0
           THEN r.Confidence + Min(indicatorsFound * 5, 30)
           ELSE r.Confidence
  IN [r EXCEPT !.Markers = @ \o MarkersOf(found), !.Confidence = CapConfidence(c)]

\* Variant of FirstPhrase: no phrase is ever found
FirstPhraseNone(body) == 0

\* The first generic phrase found in the body, 0 when there is none
FirstPhrase(body) ==
  LET hits == {i \in 1..Len(nonExistentPhrases) : ContainsFold(body, nonExistentPhrases[i])}
  IN IF hits = {} THEN 0 ELSE CHOOSE i \in hits : \A j \in hits : i <= j

\* ValidateProfile(client, platform, url, username); resp is what the HTTP
\* client does with the request.
ValidateProfile(platform, username, resp) ==
  LET r0 == [IsValid |-> FALSE, Confidence |-> 0, Markers |-> <<>>, StatusCode |-> 0,
             ErrorReason |-> "", Username |-> username, ProfileType |-> ""]
  IN
  IF resp.reqErr THEN [r0 EXCEPT !.ErrorReason = "Error creating request"]
  ELSE IF resp.doErr THEN [r0 EXCEPT !.ErrorReason = "Error performing request"]
  ELSE
  LET r1 == [r0 EXCEPT !.StatusCode = resp.status,
                       !.Markers = IF resp.finalURL # "" /\ resp.finalURL # "=url"
                                   THEN <<"Redirected to">> ELSE <<>>]
  IN
  IF IsFastPathStatus(resp.status)
  THEN IF resp.status = StatusNotFound
       THEN [r1 EXCEPT !.ErrorReason = "Profile does not exist (404)"]
       ELSE IF resp.status = StatusForbidden
       THEN [r1 EXCEPT !.ErrorReason = "Access forbidden (403) - possible rate limiting",
                       !.Confidence = 30]
       ELSE [r1 EXCEPT !.ErrorReason = "Rate limited (429)", !.Confidence = 30]
  ELSE IF resp.readErr
  THEN [r1 EXCEPT !.ErrorReason = "Error reading response body"]
  ELSE IF FirstPhrase(resp.body) # 0
  THEN Negative(r1, 90, "Profile likely doesn't exist: Found phrase")
  ELSE IF resp.status = StatusOK
  THEN LET r2 == [r1 EXCEPT !.IsValid = TRUE, !.Confidence = 70,
                            !.Markers = Append(@, "Profile page accessible")]
           p == PlatformValidation(platform, username, resp, r2)
       IN IF p.returned THEN p.res ELSE IndicatorValidation(resp, p.res)
  ELSE [r1 EXCEPT !.ErrorReason = "Profile not accessible (Status)"]

(***************************************************************************)
(* checkProfile and processSingleProfile.                                  *)
(*                                                                         *)
(* A fetch is what the network does in one call of checkProfile: v is the  *)
(* response to ValidateProfile's request, x the outcome of the second      *)
(* request and of the HTML parse ("ok", "reqErr", "doErr", "parseErr").    *)
(* A ProfileResult keeps Platform, URL, Username, Exists and Error; Error  *)
(* is a sequence of parts, <<>> being the empty string.                    *)
(***************************************************************************)
Response(status, body) ==
  [reqErr |-> FALSE, doErr |-> FALSE, status |-> status, finalURL |-> "",
   readErr |-> FALSE, body |-> body]

TransportFailure ==
  [reqErr |-> FALSE, doErr |-> TRUE, status |-> 0, finalURL |-> "",
   readErr |-> FALSE, body |-> {}]

RequestFailure ==
  [reqErr |-> TRUE, doErr |-> FALSE, status |-> 0, finalURL |-> "",
   readErr |-> FALSE, body |-> {}]

\* What the network can do in one attempt of processSingleProfile
Fetches ==
  { [v |-> TransportFailure, x |-> "ok"],
    [v |-> RequestFailure, x |-> "ok"],
    [v |-> Response(StatusNotFound, {}), x |-> "ok"],
    [v |-> Response(StatusForbidden, {}), x |-> "ok"],
    [v |-> Response(StatusTooManyRequests, {}), x |-> "ok"],
    [v |-> Response(500, {}), x |-> "ok"],
    [v |-> Response(StatusOK, {"page not found"}), x |-> "ok"],
    [v |-> Response(StatusOK, {"Followers"}), x |-> "ok"],
    [v |-> Response(StatusOK, {"Followers"}), x |-> "doErr"] }

\* The fetches of the concurrent scan: the first request fails, is answered
\* 404, is answered 200 with a page that says "not found", or 200 with a
\* profile page; the second request and the parse succeed.
ScanFetches ==
  { [v |-> TransportFailure, x |-> "ok"],
    [v |-> Response(StatusNotFound, {}), x |-> "ok"],
    [v |-> Response(StatusOK, {"page not found"}), x |-> "ok"],
    [v |-> Response(StatusOK, {"Followers"}), x |-> "ok"] }

IsEmpty(s) == Len(s) = 0

checkProfile(platform, url, username, fetch) ==
  LET result == [Platform |-> platform.Name, URL |-> url, Username |-> username,
                 Exists |-> FALSE, Error |-> <<>>]
      validation == ValidateProfile(platform, "", fetch.v)
  IN
  IF validation.StatusCode # StatusOK
  THEN [result EXCEPT !.Error = <<"HTTP Status", validation.StatusCode, validation.ErrorReason>>]
  ELSE IF validation.IsValid
  THEN IF fetch.x # "ok"
       THEN [result EXCEPT !.Exists = TRUE, !.Error = <<fetch.x>>]
       ELSE [result EXCEPT !.Exists = TRUE]
  ELSE result

\* Variant of RetryNeeded: the loop always stops after the first attempt
RetryNever(result) == FALSE

\* processSingleProfile, line 1197: the loop goes on after this result
RetryNeeded(result) == ~IsEmpty(result.Error)

\* processSingleProfile: the results of the attempts made, in order; fetches[k]
\* is what the network does in attempt k.
RECURSIVE Attempts(_, _, _, _)
Attempts(platform, term, fetches, retry) ==
  IF retry < maxRetries
  THEN LET result == checkProfile(platform, ProfileURL(platform, term), term, fetches[retry + 1])
       IN IF RetryNeeded(result)
          THEN <<result>> \o Attempts(platform, term, fetches, retry + 1)
          ELSE <<result>>
  ELSE <<>>

processSingleProfile(platform, term, fetches) ==
  LET a == Attempts(platform, term, fetches, 0)
  IN a[Len(a)]

(***************************************************************************)
(* memoryManager                                                           *)
(***************************************************************************)
newMemoryManager(maxItems) == [maxItems |-> maxItems, items |-> <<>>, files |-> <<>>]

\* Variant of mmFlush: the buffer is cleared and nothing is written
mmFlushNoWrite(m) == [m EXCEPT !.items = <<>>]

\* memoryManager.flush: files is the sequence of batches handed to
\* ioutil.WriteFile, whose error the code does not look at
mmFlush(m) ==
  IF Len(m.items) > 0
  THEN [m EXCEPT !.files = Append(@, m.items), !.items = <<>>]
  ELSE m

\* Variant of mmAdd: the item is appended without the capacity test
mmAddNoFlush(m, item) == [m EXCEPT !.items = Append(@, item)]

\* memoryManager.add
mmAdd(m, item) ==
  LET m1 == IF Len(m.items) >= m.maxItems THEN mmFlush(m) ELSE m
  IN [m1 EXCEPT !.items = Append(@, item)]

(***************************************************************************)
(* detectHardware: env tells whether /dev/nvidia0 and /dev/accel0 exist.   *)
(***************************************************************************)
NoAccelerator ==
  [hasGPU |-> FALSE, hasTPU |-> FALSE, deviceName |-> "", maxBatch |-> defaultBatchSize,
   maxWorkers |-> defaultMaxWorkers, maxConns |-> defaultMaxConns]

detectHardware(env) ==
  LET acc1 == IF env.gpu
              THEN [NoAccelerator EXCEPT !.hasGPU = TRUE, !.deviceName = "NVIDIA GPU",
                                         !.maxBatch = gpuBatchSize,
                                         !.maxWorkers = gpuMaxWorkers,
                                         !.maxConns = gpuMaxConns]
              ELSE NoAccelerator
  IN IF env.tpu
     THEN [acc1 EXCEPT !.hasTPU = TRUE, !.deviceName = "Google TPU",
                       !.maxBatch = tpuBatchSize,
                       !.maxWorkers = tpuMaxWorkers,
                       !.maxConns = tpuMaxConns]
     ELSE acc1

(***************************************************************************)
(* sort.Slice(results.Profiles, less by Platform).  sort.Slice runs        *)
(* pdqsort_func on the whole slice: a slice of at most maxInsertion        *)
(* elements is sorted by insertion; a longer one is partitioned around a   *)
(* pivot (the median of three elements) unless it is found sorted, and the *)
(* two sides are sorted in turn.  The model covers slices of at most       *)
(* maxInsertion + 1 elements, for which both sides are sorted by insertion *)
(* and pdqsort_func's other branches (breakPatterns, heapSort, the ninther *)
(* and partitionEqual) are not reached.  Indices are Go's (from 0).        *)
(***************************************************************************)
maxInsertion == 12

\* data.Less(i, j)
Less(s, i, j) == PlatformLess(s[i + 1], s[j + 1])

\* data.Swap(i, j)
Swap(s, i, j) == [s EXCEPT ![i + 1] = s[j + 1], ![j + 1] = s[i + 1]]

\* insertionSort_func, inner loop: for j := i; j > a && Less(j, j-1); j--
RECURSIVE SiftDown(_, _, _)
SiftDown(s, a, j) ==
  IF j > a /\ Less(s, j, j - 1) THEN SiftDown(Swap(s, j, j - 1), a, j - 1) ELSE s

\* insertionSort_func, outer loop: for i := a + 1; i < b; i++
RECURSIVE InsertionSortFrom(_, _, _, _)
InsertionSortFrom(s, a, b, i) ==
  IF i < b THEN InsertionSortFrom(SiftDown(s, a, i), a, b, i + 1) ELSE s

insertionSort(s, a, b) == InsertionSortFrom(s, a, b, a + 1)

\* order2_func: <<x, y, swaps>> with data[x] <= data[y]
order2(s, a, b, swaps) == IF Less(s, b, a) THEN <<b, a, swaps + 1>> ELSE <<a, b, swaps>>

\* median_func: <<index of the median of data[a], data[b], data[c], swaps>>
median(s, a, b, c, swaps) ==
  LET o1 == order2(s, a, b, swaps)
      o2 == order2(s, o1[2], c, o1[3])
      o3 == order2(s, o1[1], o2[1], o2[3])
  IN <<o3[2], o3[3]>>

\* choosePivot_func for 8 <= b - a < 50: the pivot and whether the slice is
\* likely sorted (no swap was needed: increasingHint)
choosePivot(s, a, b) ==
  LET l == b - a
      m == median(s, a + (l \div 4) * 1, a + (l \div 4) * 2, a + (l \div 4) * 3, 0)
  IN [pivot |-> m[1], increasing |-> m[2] = 0]

\* partialInsertionSort_func for b - a < 50 (no element is shifted): the
\* slice is already sorted
RECURSIVE FirstDescent(_, _, _)
FirstDescent(s, i, b) ==
  IF i < b /\ ~Less(s, i, i - 1) THEN FirstDescent(s, i + 1, b) ELSE i

partialInsertionSort(s, a, b) == FirstDescent(s, a + 1, b) = b

\* partition_func: the two scans
RECURSIVE ScanUp(_, _, _, _)
ScanUp(s, a, i, j) == IF i <= j /\ Less(s, i, a) THEN ScanUp(s, a, i + 1, j) ELSE i

RECURSIVE ScanDown(_, _, _, _)
ScanDown(s, a, i, j) == IF i <= j /\ ~Less(s, j, a) THEN ScanDown(s, a, i, j - 1) ELSE j

\* partition_func: the loop that swaps the pairs out of place
RECURSIVE PartitionLoop(_, _, _, _)
PartitionLoop(s, a, i, j) ==
  LET i1 == ScanUp(s, a, i, j)
      j1 == ScanDown(s, a, i1, j)
  IN IF i1 > j1
     THEN [s |-> Swap(s, j1, a), mid |-> j1]
     ELSE PartitionLoop(Swap(s, i1, j1), a, i1 + 1, j1 - 1)

\* partition_func(data, a, b, pivot): the slice and the pivot's new index
partition(s, a, b, pivot) ==
  LET s1 == Swap(s, a, pivot)
      i == ScanUp(s1, a, a + 1, b - 1)
      j == ScanDown(s1, a, i, b - 1)
  IN IF i > j
     THEN [s |-> Swap(s1, j, a), mid |-> j]
     ELSE PartitionLoop(Swap(s1, i, j), a, i + 1, j - 1)

\* pdqsort_func(data, a, b, limit) for b - a <= maxInsertion + 1
pdqsort(s, a, b) ==
  IF b - a <= maxInsertion THEN insertionSort(s, a, b)
  ELSE LET c == choosePivot(s, a, b)
       IN IF c.increasing /\ partialInsertionSort(s, a, b) THEN s
          ELSE LET p == partition(s, a, b, c.pivot)
               IN IF p.mid - a < b - p.mid
                  THEN insertionSort(insertionSort(p.s, a, p.mid), p.mid + 1, b)
                  ELSE insertionSort(insertionSort(p.s, p.mid + 1, b), a, p.mid)

\* Variant of SortProfiles: the list is left as it is
SortProfilesNone(s) == s

\* sort.Slice(results.Profiles, ...)
SortProfiles(s) == pdqsort(s, 0, Len(s))

\* rate.NewLimiter(limit, burst): a token bucket that starts full
NewLimiter(limit, burst) == [limit |-> limit, burst |-> burst, tokens |-> burst]

\* The work set: platforms x terms, in the feeder's order
WorkItems(terms) ==
  [i \in 1..(Len(platforms) * Len(terms)) |->
     [platform |-> platforms[((i - 1) \div Len(terms)) + 1],
      term |-> terms[((i - 1) % Len(terms)) + 1]]]

\* Variant of AfterRecv: the worker starts the pipeline without a permit
AfterRecvNoWait == "process"

\* Worker, line 1085: after receiving an item the worker waits on the limiter
AfterRecv == "wait"

\* Worker, lines 1090-1096: what the worker does once processSingleProfile has
\* returned: send the result if the profile exists, then go on with the loop.
AfterItem(result) == [send |-> result.Exists, pc |-> "recv"]

\* Variant of Dequeue: the value received stays in the channel
DequeueKeep(ch) == ch

\* Channel receive: the channel without the value received
Dequeue(ch) == Tail(ch)

\* Variant of IsDuplicate: no URL counts as seen
IsDuplicateNever(seen, url) == FALSE

\* Collection loop, line 1149: processedProfiles[result.URL]
IsDuplicate(seen, url) == url \in seen

\* The results processSingleProfile can return for a work item
ProcessOutcomes(item) ==
  {processSingleProfile(item.platform, item.term, fetches) :
     fetches \in [1..maxRetries -> ScanFetches]}

OutcomeTable ==
  [i \in 1..(Len(platforms) * NumTerms) |-> ProcessOutcomes(WorkItems(QueryTerms)[i])]

(***************************************************************************)
(* State.                                                                  *)
(***************************************************************************)
VARIABLES
  pcMain,            \* the calling goroutine: "off", "init", "gwait", "collect", "done"
  searchTerms,       \* variations.GetNameVariations(username)
  limiter,           \* the rate limiter the workers wait on
  ctxDone,           \* the errgroup's context is cancelled
  workChan,          \* buffered channel of work items
  workClosed,        \* close(workChan) has run
  resultsChan,       \* buffered channel of ProfileResults
  resultsClosed,     \* close(resultsChan) has run
  errorsChan,        \* buffered channel of errors
  errorsClosed,      \* close(errorsChan) has run
  feederPc,          \* feeder goroutine: "idle", "feeding", "exited"
  feederIdx,         \* index of the next work item the feeder sends
  closerPc,          \* goroutine of lines 1134-1138: "idle", "waiting", "exited"
  wpc,               \* per worker: "idle", "recv", "wait", "process", "done"
  work,              \* per worker: the work item it holds, <<>> when none
  werr,              \* per worker: the goroutine returned a non-nil error
  tracker,           \* rateTracker: count, currentPlatform
  results,           \* the SocialMediaResults being built
  processedProfiles, \* URLs seen by the collection loop
  mm,                \* memManager
  ret,               \* what SearchProfilesSequentially returned
  enq,               \* history: how often each work item was sent on workChan
  taken,             \* history: how often each work item was received by a worker
  processed,         \* history: how often each work item went through processSingleProfile
  permitsGranted,    \* history: successful limiter.Wait calls
  pipelinesStarted,  \* history: processSingleProfile calls
  itemFailed,        \* history: some work item's final result carries an Error
  rPc, rPlatform, rTerm, rFetches, rAttempts, rAfter,   \* a call of processSingleProfile
  vPc, vPlatform, vUsername, vResp, vResult,            \* a call of ValidateProfile
  nPc, nName, nYear, nResult,                           \* a call of GetNameVariations
  hPc, hEnv, hAcc,                                      \* a call of detectHardware
  tMm, tAdds,                                           \* a memoryManager and the adds made to it
  ePc, ePlatform, eMatched, eResult,                    \* a call of the extract functions
  kTracker, kMu, kPc, kOps, kRead                       \* a rateTracker and the goroutines that use it

mainVars == <<pcMain, results, processedProfiles, mm, ret>>
chanVars == <<workChan, workClosed, resultsChan, resultsClosed, errorsChan, errorsClosed>>
feederVars == <<feederPc, feederIdx>>
workerVars == <<wpc, work, werr>>
histVars == <<enq, taken, processed, permitsGranted, pipelinesStarted, itemFailed>>
retryVars == <<rPc, rPlatform, rTerm, rFetches, rAttempts, rAfter>>
valVars == <<vPc, vPlatform, vUsername, vResp, vResult>>
nameVars == <<nPc, nName, nYear, nResult>>
hwVars == <<hPc, hEnv, hAcc>>
memVars == <<tMm, tAdds>>
extractVars == <<ePc, ePlatform, eMatched, eResult>>
trackVars == <<kTracker, kMu, kPc, kOps, kRead>>
callVars == <<retryVars, valVars, nameVars, hwVars, memVars, extractVars, trackVars>>
scanVars == <<mainVars, chanVars, feederVars, workerVars, histVars,
              searchTerms, limiter, ctxDone, closerPc, tracker>>
vars == <<scanVars, callVars>>

\* acc.maxWorkers of detectHardware
accMaxWorkers == NumWorkers

\* cap(workChan), line 1053
WorkChanCap == accMaxWorkers * 2

\* totalOperations, line 1060
totalOperations == Len(platforms) * Len(searchTerms)

\* Variant of ResultsChanCap: room for one result per platform only
ResultsChanCapSmall == Len(platforms)

\* cap(resultsChan), line 1046
ResultsChanCap == Len(platforms) * Len(searchTerms)

ItemIndex(item) == CHOOSE i \in 1..totalOperations : WorkItems(searchTerms)[i] = item

NoValidation ==
  [IsValid |-> FALSE, Confidence |-> 0, Markers |-> <<>>, StatusCode |-> 0,
   ErrorReason |-> "", Username |-> "", ProfileType |-> ""]

ValidateIdle ==
  /\ vPc = "off"
  /\ vPlatform = AllPlatforms[1]
  /\ vUsername = ""
  /\ vResp = TransportFailure
  /\ vResult = NoValidation

VariationsIdle ==
  /\ nPc = "off"
  /\ nName = <<>>
  /\ nYear = 0
  /\ nResult = {}

HardwareIdle ==
  /\ hPc = "off"
  /\ hEnv = [gpu |-> FALSE, tpu |-> FALSE]
  /\ hAcc = NoAccelerator

MemoryIdle ==
  /\ tMm = newMemoryManager(memMaxItems)
  /\ tAdds = 0

\* No call of the extract functions is in progress
ExtractIdle ==
  /\ ePc = "off"
  /\ ePlatform = AllPlatforms[1]
  /\ eMatched = <<>>
  /\ eResult = [RecentActivity |-> <<>>, Connections |-> <<>>]

\* The goroutines that use the rateTracker, and the holder of its mutex
WorkerId(w) == <<"worker", w>>
DisplayId == <<"display", 0>>
NoHolder == <<"none", 0>>
TrackerUsers == {WorkerId(w) : w \in Workers} \cup {DisplayId}

\* tracker := &rateTracker{lastUpdate: time.Now()}, line 1056.  currentRate
\* is kept as its numerator count - lastCount (the duration is positive).
newRateTracker == [count |-> 0, lastCount |-> 0, currentRate |-> 0, currentPlatform |-> ""]

\* No goroutine uses the rateTracker
TrackerIdle ==
  /\ kTracker = newRateTracker
  /\ kMu = NoHolder
  /\ kPc = [g \in TrackerUsers |-> "off"]
  /\ kOps = [w \in Workers |-> 0]
  /\ kRead = ""

UnitsIdle == VariationsIdle /\ HardwareIdle /\ MemoryIdle /\ ExtractIdle /\ TrackerIdle

RetryIdle ==
  /\ rPc = "off"
  /\ rPlatform = AllPlatforms[1]
  /\ rTerm = <<>>
  /\ rFetches = <<>>
  /\ rAttempts = <<>>
  /\ rAfter = [send |-> FALSE, pc |-> "process"]

\* The state at line 1033 for the given terms: hardware detected, first
\* limiter built, results initialised, variations generated.
ScanInit(pc, terms) ==
  /\ pcMain = pc
  /\ searchTerms = terms
  /\ limiter = NewLimiter(accMaxWorkers * 2, accMaxWorkers)
  /\ ctxDone = FALSE
  /\ workChan = <<>> /\ workClosed = FALSE
  /\ resultsChan = <<>> /\ resultsClosed = FALSE
  /\ errorsChan = <<>> /\ errorsClosed = FALSE
  /\ feederPc = "idle" /\ feederIdx = 1
  /\ closerPc = "idle"
  /\ wpc = [w \in Workers |-> "idle"]
  /\ work = [w \in Workers |-> <<>>]
  /\ werr = [w \in Workers |-> FALSE]
  /\ tracker = [count |-> 0, currentPlatform |-> ""]
  /\ results = [ProfilesFound |-> 0, Profiles |-> <<>>]
  /\ processedProfiles = {}
  /\ mm = newMemoryManager(memMaxItems)
  /\ ret = [returned |-> FALSE, nil |-> TRUE, err |-> ""]
  /\ enq = [i \in 1..(Len(platforms) * Len(terms)) |-> 0]
  /\ taken = [i \in 1..(Len(platforms) * Len(terms)) |-> 0]
  /\ processed = [i \in 1..(Len(platforms) * Len(terms)) |-> 0]
  /\ permitsGranted = 0
  /\ pipelinesStarted = 0
  /\ itemFailed = FALSE

\* Line 1033: the search terms of a username.  The empty username has no
\* variations; of the variations of the query "J S" the scan takes the
\* first NumTerms.
SearchTermsOf(username) ==
  IF \A y \in CurrentYears : GetNameVariations(username, y) = {} THEN <<>> ELSE QueryTerms

Init ==
  /\ \E username \in {<<>>, Term(1)} : ScanInit("init", SearchTermsOf(username))
  /\ RetryIdle
  /\ ValidateIdle
  /\ UnitsIdle

\* Lines 1041-1138: the second limiter replaces the first, the channels are
\* made, the workers, the feeder and the closing goroutine are started.
MainStart ==
  /\ pcMain = "init"
  /\ pcMain' = "gwait"
  /\ limiter' = NewLimiter(scanRateLimit, maxConcurrentScans)
  /\ wpc' = [w \in Workers |-> "recv"]
  /\ feederPc' = "feeding"
  /\ closerPc' = "waiting"
  /\ UNCHANGED <<results, processedProfiles, mm, ret, chanVars, feederIdx, work,
                 werr, histVars, callVars, searchTerms, ctxDone, tracker>>

\* Feeder, line 1106: send the next work item
FeederSend ==
  /\ feederPc = "feeding"
  /\ feederIdx <= totalOperations
  /\ Len(workChan) < WorkChanCap
  /\ workChan' = Append(workChan, WorkItems(searchTerms)[feederIdx])
  /\ enq' = [enq EXCEPT ![feederIdx] = @ + 1]
  /\ feederIdx' = feederIdx + 1
  /\ UNCHANGED <<mainVars, workClosed, resultsChan, resultsClosed, errorsChan, errorsClosed,
                 feederPc, workerVars, taken, processed, permitsGranted, pipelinesStarted,
                 itemFailed, callVars, searchTerms, limiter, ctxDone, closerPc, tracker>>

\* Feeder, lines 1107-1108: the context is done, return
FeederCancel ==
  /\ feederPc = "feeding"
  /\ feederIdx <= totalOperations
  /\ ctxDone
  /\ feederPc' = "exited"
  /\ UNCHANGED <<mainVars, chanVars, feederIdx, workerVars, histVars, callVars,
                 searchTerms, limiter, ctxDone, closerPc, tracker>>

\* Variant of FeederClose: the feeder returns without closing the channel
FeederCloseSkip ==
  /\ feederPc = "feeding"
  /\ feederIdx > totalOperations
  /\ feederPc' = "exited"
  /\ UNCHANGED <<mainVars, chanVars, feederIdx, workerVars, histVars, callVars,
                 searchTerms, limiter, ctxDone, closerPc, tracker>>

\* Feeder, line 1112: all items sent, close(workChan)
FeederClose ==
  /\ feederPc = "feeding"
  /\ feederIdx > totalOperations
  /\ workClosed' = TRUE
  /\ feederPc' = "exited"
  /\ UNCHANGED <<mainVars, workChan, resultsChan, resultsClosed, errorsChan, errorsClosed,
                 feederIdx, workerVars, histVars, callVars, searchTerms, limiter, ctxDone,
                 closerPc, tracker>>

\* Worker, lines 1082-1083: receive a work item, record its platform
WorkerRecv(w) ==
  /\ wpc[w] = "recv"
  /\ workChan # <<>>
  /\ work' = [work EXCEPT ![w] = Head(workChan)]
  /\ workChan' = Dequeue(workChan)
  /\ tracker' = [tracker EXCEPT !.currentPlatform = Head(workChan).platform.Name]
  /\ taken' = [taken EXCEPT ![ItemIndex(Head(workChan))] = @ + 1]
  /\ wpc' = [wpc EXCEPT ![w] = AfterRecv]
  /\ UNCHANGED <<mainVars, workClosed, resultsChan, resultsClosed, errorsChan, errorsClosed,
                 feederVars, werr, enq, processed, permitsGranted, pipelinesStarted,
                 itemFailed, callVars, searchTerms, limiter, ctxDone, closerPc>>

\* Worker, lines 1082 and 1097: workChan is closed and drained, return nil
WorkerExit(w) ==
  /\ wpc[w] = "recv"
  /\ workChan = <<>>
  /\ workClosed
  /\ wpc' = [wpc EXCEPT ![w] = "done"]
  /\ UNCHANGED <<mainVars, chanVars, feederVars, work, werr, histVars, callVars,
                 searchTerms, limiter, ctxDone, closerPc, tracker>>

\* Worker, line 1085: limiter.Wait(ctx) grants a permit: it takes a token
\* from the bucket; with an empty bucket the call sleeps until one token has
\* been refilled and takes that one.  (Refills of a bucket that is not empty
\* change no worker's behaviour and are left out.)
LimiterWaitOK(w) ==
  /\ wpc[w] = "wait"
  /\ ~ctxDone
  /\ limiter' = [limiter EXCEPT !.tokens = IF @ > 0 THEN @ - 1 ELSE 0]
  /\ permitsGranted' = permitsGranted + 1
  /\ wpc' = [wpc EXCEPT ![w] = "process"]
  /\ UNCHANGED <<mainVars, chanVars, feederVars, work, werr, enq, taken, processed,
                 pipelinesStarted, itemFailed, callVars, searchTerms, ctxDone, closerPc,
                 tracker>>

\* Worker, lines 1085-1087: limiter.Wait(ctx) returns an error (the context
\* is done, or the limiter refuses the wait); the worker returns it, holding
\* its work item, and the errgroup cancels the context on the first error.
LimiterWaitErr(w) ==
  /\ wpc[w] = "wait"
  /\ wpc' = [wpc EXCEPT ![w] = "done"]
  /\ werr' = [werr EXCEPT ![w] = TRUE]
  /\ ctxDone' = TRUE
  /\ UNCHANGED <<mainVars, chanVars, feederVars, work, histVars, callVars,
                 searchTerms, limiter, closerPc, tracker>>

\* Worker, lines 1089-1095: processSingleProfile on the item held (its
\* retries included), send of an existing profile, count of the item
WorkerProcess(w) ==
  /\ wpc[w] = "process"
  /\ \E result \in OutcomeTable[ItemIndex(work[w])] :
       /\ IF AfterItem(result).send
          THEN /\ Len(resultsChan) < ResultsChanCap
               /\ ~resultsClosed
               /\ resultsChan' = Append(resultsChan, result)
          ELSE UNCHANGED resultsChan
       /\ itemFailed' = (itemFailed \/ ~IsEmpty(result.Error))
       /\ wpc' = [wpc EXCEPT ![w] = AfterItem(result).pc]
  /\ pipelinesStarted' = pipelinesStarted + 1
  /\ processed' = [processed EXCEPT ![ItemIndex(work[w])] = @ + 1]
  /\ tracker' = [tracker EXCEPT !.count = @ + 1]
  /\ work' = [work EXCEPT ![w] = <<>>]
  /\ UNCHANGED <<mainVars, workChan, workClosed, resultsClosed, errorsChan, errorsClosed,
                 feederVars, werr, enq, taken, permitsGranted, callVars, searchTerms,
                 limiter, ctxDone, closerPc>>

\* Variant of CloserClose: the channels are closed without waiting for the
\* workers
CloserCloseEarly ==
  /\ closerPc = "waiting"
  /\ resultsClosed' = TRUE
  /\ errorsClosed' = TRUE
  /\ closerPc' = "exited"
  /\ UNCHANGED <<mainVars, workChan, workClosed, resultsChan, errorsChan, feederVars,
                 workerVars, histVars, callVars, searchTerms, limiter, ctxDone, tracker>>

\* Lines 1134-1138: once every worker has returned, close both channels
CloserClose ==
  /\ closerPc = "waiting"
  /\ \A w \in Workers : wpc[w] = "done"
  /\ resultsClosed' = TRUE
  /\ errorsClosed' = TRUE
  /\ closerPc' = "exited"
  /\ UNCHANGED <<mainVars, workChan, workClosed, resultsChan, errorsChan, feederVars,
                 workerVars, histVars, callVars, searchTerms, limiter, ctxDone, tracker>>

\* Line 1141: g.Wait() returns nil; Wait cancels the context
GroupWaitOK ==
  /\ pcMain = "gwait"
  /\ \A w \in Workers : wpc[w] = "done" /\ ~werr[w]
  /\ ctxDone' = TRUE
  /\ pcMain' = "collect"
  /\ UNCHANGED <<results, processedProfiles, mm, ret, chanVars, feederVars, workerVars,
                 histVars, callVars, searchTerms, limiter, closerPc, tracker>>

\* Lines 1141-1143: g.Wait() returns a worker's error
GroupWaitErr ==
  /\ pcMain = "gwait"
  /\ \A w \in Workers : wpc[w] = "done"
  /\ \E w \in Workers : werr[w]
  /\ ret' = [returned |-> TRUE, nil |-> TRUE, err |-> "worker error"]
  /\ pcMain' = "done"
  /\ UNCHANGED <<results, processedProfiles, mm, chanVars, feederVars, workerVars,
                 histVars, callVars, searchTerms, limiter, ctxDone, closerPc, tracker>>

\* Variant of Collect: an accepted result is appended and not counted
CollectNoCount ==
  /\ pcMain = "collect"
  /\ resultsChan # <<>>
  /\ LET result == Head(resultsChan) IN
       /\ resultsChan' = Dequeue(resultsChan)
       /\ IF IsDuplicate(processedProfiles, result.URL)
          THEN UNCHANGED <<processedProfiles, results, mm>>
          ELSE /\ processedProfiles' = processedProfiles \cup {result.URL}
               /\ IF result.Exists
                  THEN /\ results' = [results EXCEPT !.Profiles = Append(@, result)]
                       /\ mm' = mmAdd(mm, result)
                  ELSE UNCHANGED <<results, mm>>
  /\ UNCHANGED <<pcMain, ret, workChan, workClosed, resultsClosed, errorsChan, errorsClosed,
                 feederVars, workerVars, histVars, callVars, searchTerms, limiter, ctxDone,
                 closerPc, tracker>>

\* Lines 1147-1163: one iteration of the collection loop
Collect ==
  /\ pcMain = "collect"
  /\ resultsChan # <<>>
  /\ LET result == Head(resultsChan) IN
       /\ resultsChan' = Dequeue(resultsChan)
       /\ IF IsDuplicate(processedProfiles, result.URL)
          THEN UNCHANGED <<processedProfiles, results, mm>>
          ELSE /\ processedProfiles' = processedProfiles \cup {result.URL}
               /\ IF result.Exists
                  THEN /\ results' = [results EXCEPT !.ProfilesFound = @ + 1,
                                                     !.Profiles = Append(@, result)]
                       /\ mm' = mmAdd(mm, result)
                  ELSE UNCHANGED <<results, mm>>
  /\ UNCHANGED <<pcMain, ret, workChan, workClosed, resultsClosed, errorsChan, errorsClosed,
                 feederVars, workerVars, histVars, callVars, searchTerms, limiter, ctxDone,
                 closerPc, tracker>>

\* Lines 1165-1185: the loop ends on the closed channel; flush, check the
\* errors channel, sort, save (save: outputPath is empty, the save succeeds,
\* the save fails) and return.
Finish ==
  /\ pcMain = "collect"
  /\ resultsChan = <<>>
  /\ resultsClosed
  /\ mm' = mmFlush(mm)
  /\ IF Len(errorsChan) > 0
     THEN /\ ret' = [returned |-> TRUE, nil |-> FALSE,
                     err |-> "encountered errors during scanning"]
          /\ UNCHANGED results
     ELSE /\ results' = [results EXCEPT !.Profiles = SortProfiles(@)]
          /\ \E save \in {"none", "ok", "fail"} :
               ret' = [returned |-> TRUE, nil |-> FALSE,
                       err |-> IF save = "fail" THEN "error saving results" ELSE ""]
  /\ pcMain' = "done"
  /\ UNCHANGED <<processedProfiles, chanVars, feederVars, workerVars, histVars, callVars,
                 searchTerms, limiter, ctxDone, closerPc, tracker>>

Next ==
  \/ MainStart
  \/ FeederSend
  \/ FeederCancel
  \/ FeederClose
  \/ \E w \in Workers : WorkerRecv(w)
  \/ \E w \in Workers : WorkerExit(w)
  \/ \E w \in Workers : LimiterWaitOK(w)
  \/ \E w \in Workers : LimiterWaitErr(w)
  \/ \E w \in Workers : WorkerProcess(w)
  \/ CloserClose
  \/ GroupWaitOK
  \/ GroupWaitErr
  \/ Collect
  \/ Finish

Spec == Init /\ [][Next]_vars

(***************************************************************************)
(* The scan without cancellation: limiter.Wait never returns an error, so  *)
(* no worker returns one, the context is cancelled only by g.Wait(), and   *)
(* every call of processSingleProfile returns.  The Go scheduler runs a    *)
(* goroutine that can take a step, and the limiter's bucket refills with   *)
(* time: some step that is possible is eventually taken.                   *)
(***************************************************************************)
NextLive ==
  \/ MainStart
  \/ FeederSend
  \/ FeederClose
  \/ \E w \in Workers : WorkerRecv(w)
  \/ \E w \in Workers : WorkerExit(w)
  \/ \E w \in Workers : LimiterWaitOK(w)
  \/ \E w \in Workers : WorkerProcess(w)
  \/ CloserClose
  \/ GroupWaitOK
  \/ Collect
  \/ Finish

SpecLive == Init /\ [][NextLive]_vars /\ WF_vars(NextLive)

(***************************************************************************)
(* processSingleProfile as a function of what the network does: one call   *)
(* by a worker, for any platform of the scan, any term of the query and    *)
(* any fetches.                                                            *)
(***************************************************************************)
InitRetry ==
  /\ ScanInit("off", <<>>)
  /\ ValidateIdle
  /\ UnitsIdle
  /\ rPc = "input"
  /\ \E i \in 1..Len(platforms) : rPlatform = platforms[i]
  /\ \E k \in 1..NumTerms : rTerm = QueryTerms[k]
  /\ rFetches \in [1..maxRetries -> Fetches]
  /\ rAttempts = <<>>
  /\ rAfter = [send |-> FALSE, pc |-> "process"]

\* Worker, lines 1089-1096, on the input drawn
RetryCall ==
  /\ rPc = "input"
  /\ rAttempts' = Attempts(rPlatform, rTerm, rFetches, 0)
  /\ rAfter' = AfterItem(processSingleProfile(rPlatform, rTerm, rFetches))
  /\ rPc' = "called"
  /\ UNCHANGED <<scanVars, valVars, nameVars, hwVars, memVars, extractVars, trackVars,
                 rPlatform, rTerm, rFetches>>

NextRetry == RetryCall

SpecRetry == InitRetry /\ [][NextRetry]_vars

(***************************************************************************)
(* ValidateProfile as a function of the response.                          *)
(***************************************************************************)
\* Largest number of fragments in a body
MaxFrags == 2

RECURSIVE BodiesUpTo(_)
BodiesUpTo(k) ==
  IF k = 0 THEN {{}}
  ELSE LET prev == BodiesUpTo(k - 1)
       IN prev \cup {b \cup {f} : b \in prev, f \in Fragments}

ValBodies == BodiesUpTo(MaxFrags)

ValStatuses == {StatusOK, 301, 401, StatusForbidden, StatusNotFound, 410,
                StatusTooManyRequests, 500}

InitValidate ==
  /\ ScanInit("off", <<>>)
  /\ RetryIdle
  /\ UnitsIdle
  /\ vPc = "input"
  /\ vResult = NoValidation
  /\ \E i \in 1..Len(AllPlatforms) : vPlatform = AllPlatforms[i]
  /\ \/ \* a 200 response with any body
        /\ vUsername \in {"", "js"}
        /\ \E u \in FinalURLs, b \in ValBodies :
             vResp = [Response(StatusOK, b) EXCEPT !.finalURL = u]
     \/ \* any other status, with at most one fragment in the body
        /\ vUsername = ""
        /\ \E s \in ValStatuses \ {StatusOK}, u \in {"", "other"}, b \in BodiesUpTo(1) :
             vResp = [Response(s, b) EXCEPT !.finalURL = u]
     \/ \* the request cannot be built, the transport fails, the body cannot be read
        /\ vUsername = ""
        /\ \/ vResp \in {RequestFailure, TransportFailure}
           \/ \E s \in ValStatuses : vResp = [Response(s, {}) EXCEPT !.readErr = TRUE]

ValidateCall ==
  /\ vPc = "input"
  /\ vResult' = ValidateProfile(vPlatform, vUsername, vResp)
  /\ vPc' = "returned"
  /\ UNCHANGED <<scanVars, retryVars, nameVars, hwVars, memVars, extractVars, trackVars,
                 vPlatform, vUsername, vResp>>

NextValidate == ValidateCall

SpecValidate == InitValidate /\ [][NextValidate]_vars

(***************************************************************************)
(* GetNameVariations as a function of the name and of the current year.    *)
(***************************************************************************)
\* Longest name
MaxNameLen == 4

NameChars == {" ", "J", "S", "o"}

RECURSIVE NamesUpTo(_)
NamesUpTo(k) ==
  IF k = 0 THEN {<<>>}
  ELSE LET prev == NamesUpTo(k - 1)
       IN prev \cup {Append(n, c) : n \in prev, c \in NameChars}

InitVariations ==
  /\ ScanInit("off", <<>>)
  /\ RetryIdle
  /\ ValidateIdle
  /\ HardwareIdle
  /\ MemoryIdle
  /\ ExtractIdle
  /\ TrackerIdle
  /\ nPc = "input"
  /\ nName \in NamesUpTo(MaxNameLen)
  /\ nYear \in CurrentYears
  /\ nResult = {}

VariationsCall ==
  /\ nPc = "input"
  /\ nResult' = GetNameVariations(nName, nYear)
  /\ nPc' = "returned"
  /\ UNCHANGED <<scanVars, retryVars, valVars, hwVars, memVars, extractVars, trackVars,
                 nName, nYear>>

NextVariations == VariationsCall

SpecVariations == InitVariations /\ [][NextVariations]_vars

(***************************************************************************)
(* The resources of a scan: detectHardware on any hardware, and a          *)
(* memoryManager of any capacity under any sequence of add and flush.      *)
(***************************************************************************)
\* Largest capacity of the memoryManager
MemCap == 2
\* Largest number of add calls
MaxAdds == 4

\* The ProfileResults that are added
MemItems ==
  {[Platform |-> AllPlatforms[i].Name, URL |-> ProfileURL(AllPlatforms[i], Term(2)),
    Username |-> Term(2), Exists |-> TRUE, Error |-> <<>>] : i \in 1..2}

InitResources ==
  /\ ScanInit("off", <<>>)
  /\ RetryIdle
  /\ ValidateIdle
  /\ VariationsIdle
  /\ ExtractIdle
  /\ TrackerIdle
  /\ hPc = "start"
  /\ hEnv \in [gpu : BOOLEAN, tpu : BOOLEAN]
  /\ hAcc = NoAccelerator
  /\ \E maxItems \in 1..MemCap : tMm = newMemoryManager(maxItems)
  /\ tAdds = 0

\* Line 993: acc := detectHardware()
DetectHardware ==
  /\ hPc = "start"
  /\ hAcc' = detectHardware(hEnv)
  /\ hPc' = "detected"
  /\ UNCHANGED <<scanVars, retryVars, valVars, nameVars, memVars, extractVars, trackVars,
                 hEnv>>

\* memManager.add(result)
MemAdd ==
  /\ tAdds < MaxAdds
  /\ \E item \in MemItems : tMm' = mmAdd(tMm, item)
  /\ tAdds' = tAdds + 1
  /\ UNCHANGED <<scanVars, retryVars, valVars, nameVars, hwVars, extractVars, trackVars>>

\* memManager.flush() on a buffer that holds items (on an empty buffer the
\* call changes nothing)
MemFlush ==
  /\ Len(tMm.items) > 0
  /\ tMm' = mmFlush(tMm)
  /\ UNCHANGED <<scanVars, retryVars, valVars, nameVars, hwVars, extractVars, trackVars,
                 tAdds>>

NextResources == DetectHardware \/ MemAdd \/ MemFlush

SpecResources == InitResources /\ [][NextResources]_vars

(***************************************************************************)
(* The aggregation stage (lines 1145-1185) for any results channel: when   *)
(* g.Wait() has returned nil the workers have exited, the channels are     *)
(* closed and resultsChan holds the results of the profiles found, in the  *)
(* order the workers sent them.  The results are those of distinct work    *)
(* items, over the whole catalog and the first two terms (whose URLs are   *)
(* the same).  The histories of the dispatch are not kept here.  The       *)
(* capacity of the memoryManager is the one of the program or a small one  *)
(* that the results of the channel can reach and exceed.                   *)
(***************************************************************************)
\* Largest number of results in the channel
MaxProfiles == 3

FoundProfiles ==
  {[Platform |-> AllPlatforms[i].Name, URL |-> ProfileURL(AllPlatforms[i], Term(k)),
    Username |-> Term(k), Exists |-> TRUE, Error |-> <<>>] :
     i \in 1..Len(AllPlatforms), k \in 1..2}

RECURSIVE ChannelsUpTo(_)
ChannelsUpTo(n) ==
  IF n = 0 THEN {<<>>}
  ELSE LET prev == ChannelsUpTo(n - 1)
       IN prev \cup {Append(c, r) : c \in {x \in prev : Len(x) = n - 1},
                                    r \in FoundProfiles}

Distinct(c) == \A i, j \in 1..Len(c) : i # j => c[i] # c[j]

\* The capacities of memManager
SpillCaps == (1..MemCap) \cup {memMaxItems}

\* The state when g.Wait() has returned nil, for a results channel of the
\* set chans and a memoryManager with a capacity of the set caps
AggregateInit(chans, caps) ==
  /\ pcMain = "collect"
  /\ searchTerms = QueryTerms
  /\ limiter = NewLimiter(scanRateLimit, maxConcurrentScans)
  /\ ctxDone = TRUE
  /\ workChan = <<>> /\ workClosed = TRUE
  /\ resultsChan \in chans
  /\ resultsClosed = TRUE
  /\ errorsChan = <<>> /\ errorsClosed = TRUE
  /\ feederPc = "exited" /\ feederIdx = totalOperations + 1
  /\ closerPc = "exited"
  /\ wpc = [w \in Workers |-> "done"]
  /\ work = [w \in Workers |-> <<>>]
  /\ werr = [w \in Workers |-> FALSE]
  /\ tracker = [count |-> totalOperations, currentPlatform |-> platforms[Len(platforms)].Name]
  /\ results = [ProfilesFound |-> 0, Profiles |-> <<>>]
  /\ processedProfiles = {}
  /\ \E maxItems \in caps : mm = newMemoryManager(maxItems)
  /\ ret = [returned |-> FALSE, nil |-> TRUE, err |-> ""]
  /\ enq = [i \in 1..totalOperations |-> 0]
  /\ taken = [i \in 1..totalOperations |-> 0]
  /\ processed = [i \in 1..totalOperations |-> 0]
  /\ permitsGranted = 0
  /\ pipelinesStarted = 0
  /\ itemFailed = FALSE
  /\ RetryIdle
  /\ ValidateIdle
  /\ UnitsIdle

InitAggregate ==
  AggregateInit({c \in ChannelsUpTo(MaxProfiles) : Distinct(c)}, SpillCaps)

NextAggregate == Collect \/ Finish

SpecAggregate == InitAggregate /\ [][NextAggregate]_vars

(***************************************************************************)
(* The aggregation stage for a results channel that holds one result more  *)
(* than sort.Slice sorts by insertion: the profiles found for              *)
(* maxInsertion + 1 variations, each on any of the first SortPlatforms     *)
(* platforms of the catalog.                                               *)
(***************************************************************************)
\* Number of platforms the results are of
SortPlatforms == 2

\* The results channel in which the k-th result is of platform f[k]
LongChannel(f) ==
  [k \in 1..(maxInsertion + 1) |->
     [Platform |-> AllPlatforms[f[k]].Name, URL |-> ProfileURL(AllPlatforms[f[k]], Term(k + 1)),
      Username |-> Term(k + 1), Exists |-> TRUE, Error |-> <<>>]]

InitSort ==
  AggregateInit({LongChannel(f) : f \in [1..(maxInsertion + 1) -> 1..SortPlatforms]},
                {memMaxItems})

SpecSort == InitSort /\ [][NextAggregate]_vars

(***************************************************************************)
(* extractRecentActivity and extractConnections.  A text is a sequence of  *)
(* one-byte characters.  The document is given by the texts of the         *)
(* elements a selector matches, in document order; the two selectors match *)
(* the same elements.                                                      *)
(***************************************************************************)
\* Largest number of elements a selector matches
MaxElems == 6

\* The class \s of the regular expression in cleanText
ReSpace(c) == c \in {"\t", "\n", "\f", "\r", " "}

\* re.ReplaceAllString(text, " ") for the expression \s+ : the first character
\* of a run of the class becomes a space, the others of the run are dropped
ReplaceSpaceRuns(text) ==
  LET Keep(i) == ~ReSpace(text[i]) \/ i = 1 \/ ~ReSpace(text[i - 1])
      kept == SelectSeq([i \in 1..Len(text) |-> i], Keep)
  IN [k \in 1..Len(kept) |-> IF ReSpace(text[kept[k]]) THEN " " ELSE text[kept[k]]]

cleanText(text) == TrimSpace(ReplaceSpaceRuns(ReplaceAllChar(text, "\n", " ")))

\* if len(text) > 100 { text = text[:97] + "..." }
TruncateActivity(text) ==
  IF Len(text) > 100 THEN SubSeq(text, 1, 97) \o <<".", ".", ".">> ELSE text

\* if len(text) > 50 { text = text[:47] + "..." }
TruncateConnection(text) ==
  IF Len(text) > 50 THEN SubSeq(text, 1, 47) \o <<".", ".", ".">> ELSE text

\* if i >= 5 { return }, i being the index from 0 of the matched element
BeyondLimitNever(i) == FALSE
BeyondLimit(i) == i >= 5

\* Each over the matched elements from the one of index i on: list is the
\* result's RecentActivity so far
RECURSIVE EachActivity(_, _, _)
EachActivity(matched, i, list) ==
  IF i >= Len(matched) THEN list
  ELSE EachActivity(matched, i + 1,
         IF BeyondLimit(i) THEN list
         ELSE LET text == TruncateActivity(cleanText(matched[i + 1]))
              IN IF text # <<>> THEN Append(list, text) ELSE list)

RECURSIVE EachConnection(_, _, _)
EachConnection(matched, i, list) ==
  IF i >= Len(matched) THEN list
  ELSE EachConnection(matched, i + 1,
         IF BeyondLimit(i) THEN list
         ELSE LET text == TruncateConnection(cleanText(matched[i + 1]))
              IN IF text # <<>> THEN Append(list, text) ELSE list)

extractRecentActivity(matched, result, platform) ==
  IF ~HasActivitySelector(platform) THEN result
  ELSE [result EXCEPT !.RecentActivity = EachActivity(matched, 0, @)]

extractConnections(matched, result, platform) ==
  IF ~HasConnectionsSelector(platform) THEN result
  ELSE [result EXCEPT !.Connections = EachConnection(matched, 0, @)]

\* A text of n characters: words of six letters
LongText(n) == [i \in 1..n |-> IF i % 7 = 0 THEN " " ELSE "a"]

\* The texts of the matched elements: white space only, a short text with
\* white space of every kind, one longer than a connection entry and one
\* longer than an activity entry
BlankText == <<" ", "\n", "\t", VT, "\r">>
MessyText == <<VT, "\n", "a", " ", "\r", "\n", "\t", "b", VT, VT, "c", " ", "\f">>
ElemTexts == {BlankText, MessyText, LongText(51), LongText(101)}

RECURSIVE MatchesUpTo(_)
MatchesUpTo(k) ==
  IF k = 0 THEN {<<>>}
  ELSE LET prev == MatchesUpTo(k - 1)
       IN prev \cup {Append(m, t) : m \in {p \in prev : Len(p) = k - 1}, t \in ElemTexts}

\* The platforms the page is of: one of the catalog that has both selectors
\* and one that has no ConnectionsSelector
ExtractPlatforms ==
  {AllPlatforms[i] : i \in {j \in 1..Len(AllPlatforms) : AllPlatforms[j].Name \in {"Twitter", "Reddit"}}}

\* checkProfile has just parsed the page: both lists are empty
InitExtract ==
  /\ ScanInit("off", <<>>)
  /\ RetryIdle
  /\ ValidateIdle
  /\ VariationsIdle
  /\ HardwareIdle
  /\ MemoryIdle
  /\ TrackerIdle
  /\ ePc = "parsed"
  /\ ePlatform \in ExtractPlatforms
  /\ eMatched \in MatchesUpTo(MaxElems)
  /\ eResult = [RecentActivity |-> <<>>, Connections |-> <<>>]

\* extractRecentActivity(doc, &result, platform) and
\* extractConnections(doc, &result, platform)
ExtractCall ==
  /\ ePc = "parsed"
  /\ eResult' = extractConnections(eMatched, extractRecentActivity(eMatched, eResult, ePlatform),
                                   ePlatform)
  /\ ePc' = "extracted"
  /\ UNCHANGED <<scanVars, retryVars, valVars, nameVars, hwVars, memVars, trackVars,
                 ePlatform, eMatched>>

NextExtract == ExtractCall

SpecExtract == InitExtract /\ [][NextExtract]_vars

(***************************************************************************)
(* The rateTracker and the goroutines that use it: the workers             *)
(* (setCurrentPlatform and increment for every item) and the progress      *)
(* display (update, a read of currentPlatform, getRate).  A call that      *)
(* locks the mutex is two steps, the lock and the rest of the call, so     *)
(* that the other goroutines run while the mutex is held.  Whether a       *)
(* second has passed since lastUpdate is chosen freely.                    *)
(***************************************************************************)
\* Largest number of items a worker takes from the queue
MaxTrackOps == 2

\* work.platform.Name of the items
TrackPlatforms == {AllPlatforms[1].Name, AllPlatforms[2].Name}

\* What a read of the string that overlaps a write of it may yield besides
\* the old and the new value: the pointer of one with the length of the other
TornString == "torn"

InitTracker ==
  /\ ScanInit("off", <<>>)
  /\ RetryIdle
  /\ ValidateIdle
  /\ VariationsIdle
  /\ HardwareIdle
  /\ MemoryIdle
  /\ ExtractIdle
  /\ kTracker = newRateTracker
  /\ kMu = NoHolder
  /\ kPc = [g \in TrackerUsers |-> IF g = DisplayId THEN "sleep" ELSE "recv"]
  /\ kOps = [w \in Workers |-> 0]
  /\ kRead = ""

\* rt.mu.Lock() by goroutine g, whose call continues at pc
MuLock(g, pc) ==
  /\ kMu = NoHolder
  /\ kMu' = g
  /\ kPc' = [kPc EXCEPT ![g] = pc]

\* rt.mu.Unlock() by goroutine g, which goes on at pc
MuUnlock(g, pc) ==
  /\ kMu' = NoHolder
  /\ kPc' = [kPc EXCEPT ![g] = pc]

\* The context is done: a worker has returned an error, or all have returned
TrackerCtxDone ==
  \/ \E w \in Workers : kPc[WorkerId(w)] = "failed"
  \/ \A w \in Workers : kPc[WorkerId(w)] = "done"

\* Worker, lines 1082-1083 and 894: an item is taken and setCurrentPlatform
\* locks the mutex
SetCurrentPlatformLock(w) ==
  /\ kPc[WorkerId(w)] = "recv"
  /\ kOps[w] < MaxTrackOps
  /\ MuLock(WorkerId(w), "setCurrentPlatform")
  /\ UNCHANGED <<scanVars, retryVars, valVars, nameVars, hwVars, memVars, extractVars,
                 kTracker, kOps, kRead>>

\* Worker, lines 895-896
SetCurrentPlatform(w) ==
  /\ kPc[WorkerId(w)] = "setCurrentPlatform"
  /\ \E platform \in TrackPlatforms :
       kTracker' = [kTracker EXCEPT !.currentPlatform = platform]
  /\ MuUnlock(WorkerId(w), "process")
  /\ UNCHANGED <<scanVars, retryVars, valVars, nameVars, hwVars, memVars, extractVars,
                 kOps, kRead>>

\* Worker, lines 1085-1087: limiter.Wait returns an error and the worker
\* returns it
TrackerWaitErr(w) ==
  /\ kPc[WorkerId(w)] = "process"
  /\ kPc' = [kPc EXCEPT ![WorkerId(w)] = "failed"]
  /\ UNCHANGED <<scanVars, retryVars, valVars, nameVars, hwVars, memVars, extractVars,
                 kTracker, kMu, kOps, kRead>>

\* Worker, lines 1085-1094 and 881: the item is processed and increment
\* locks the mutex
IncrementLock(w) ==
  /\ kPc[WorkerId(w)] = "process"
  /\ MuLock(WorkerId(w), "increment")
  /\ UNCHANGED <<scanVars, retryVars, valVars, nameVars, hwVars, memVars, extractVars,
                 kTracker, kOps, kRead>>

\* Worker, lines 882-883
Increment(w) ==
  /\ kPc[WorkerId(w)] = "increment"
  /\ kTracker' = [kTracker EXCEPT !.count = @ + 1]
  /\ kOps' = [kOps EXCEPT ![w] = @ + 1]
  /\ MuUnlock(WorkerId(w), "recv")
  /\ UNCHANGED <<scanVars, retryVars, valVars, nameVars, hwVars, memVars, extractVars, kRead>>

\* Worker, lines 1082 and 1097: the queue is closed and empty
TrackerWorkerReturn(w) ==
  /\ kPc[WorkerId(w)] = "recv"
  /\ kPc' = [kPc EXCEPT ![WorkerId(w)] = "done"]
  /\ UNCHANGED <<scanVars, retryVars, valVars, nameVars, hwVars, memVars, extractVars,
                 kTracker, kMu, kOps, kRead>>

\* Display, lines 1121-1123 and 868: after the sleep update locks the mutex
UpdateLock ==
  /\ kPc[DisplayId] = "sleep"
  /\ MuLock(DisplayId, "update")
  /\ UNCHANGED <<scanVars, retryVars, valVars, nameVars, hwVars, memVars, extractVars,
                 kTracker, kOps, kRead>>

\* Display, lines 871-877 and the deferred unlock
Update ==
  /\ kPc[DisplayId] = "update"
  /\ \E secondPassed \in BOOLEAN :
       kTracker' = IF secondPassed
                   THEN [kTracker EXCEPT !.currentRate = kTracker.count - kTracker.lastCount,
                                         !.lastCount = kTracker.count]
                   ELSE kTracker
  /\ MuUnlock(DisplayId, "readPlatform")
  /\ UNCHANGED <<scanVars, retryVars, valVars, nameVars, hwVars, memVars, extractVars,
                 kOps, kRead>>

\* Display, lines 1124-1125: platform := tracker.currentPlatform, read
\* without the mutex.  While a worker is in setCurrentPlatform the read
\* overlaps its write.
ReadCurrentPlatform ==
  /\ kPc[DisplayId] = "readPlatform"
  /\ \E platform \in {kTracker.currentPlatform} \cup
                      (IF \E w \in Workers : kPc[WorkerId(w)] = "setCurrentPlatform"
                       THEN {TornString} ELSE {}) :
       /\ kRead' = platform
       /\ kPc' = [kPc EXCEPT ![DisplayId] = IF platform # "" THEN "describe" ELSE "sleep"]
  /\ UNCHANGED <<scanVars, retryVars, valVars, nameVars, hwVars, memVars, extractVars,
                 kTracker, kMu, kOps>>

\* Display, lines 1126-1127 and 887: getRate locks the mutex
GetRateLock ==
  /\ kPc[DisplayId] = "describe"
  /\ MuLock(DisplayId, "getRate")
  /\ UNCHANGED <<scanVars, retryVars, valVars, nameVars, hwVars, memVars, extractVars,
                 kTracker, kOps, kRead>>

\* Display, line 889 and the deferred unlock; the rate goes to the bar
GetRate ==
  /\ kPc[DisplayId] = "getRate"
  /\ MuUnlock(DisplayId, "sleep")
  /\ UNCHANGED <<scanVars, retryVars, valVars, nameVars, hwVars, memVars, extractVars,
                 kTracker, kOps, kRead>>

\* Display, lines 1119-1120
DisplayReturn ==
  /\ kPc[DisplayId] = "sleep"
  /\ TrackerCtxDone
  /\ kPc' = [kPc EXCEPT ![DisplayId] = "exited"]
  /\ UNCHANGED <<scanVars, retryVars, valVars, nameVars, hwVars, memVars, extractVars,
                 kTracker, kMu, kOps, kRead>>

NextTracker ==
  \/ \E w \in Workers : SetCurrentPlatformLock(w)
  \/ \E w \in Workers : SetCurrentPlatform(w)
  \/ \E w \in Workers : TrackerWaitErr(w)
  \/ \E w \in Workers : IncrementLock(w)
  \/ \E w \in Workers : Increment(w)
  \/ \E w \in Workers : TrackerWorkerReturn(w)
  \/ UpdateLock
  \/ Update
  \/ ReadCurrentPlatform
  \/ GetRateLock
  \/ GetRate
  \/ DisplayReturn

SpecTracker == InitTracker /\ [][NextTracker]_vars

(***************************************************************************)
(* Properties.                                                             *)
(***************************************************************************)
HoldsItem(w) == wpc[w] \in {"wait", "process"}

NoWorkerError == \A w \in Workers : ~werr[w]

ProfileURLs == {results.Profiles[i].URL : i \in 1..Len(results.Profiles)}

\* C1: in a run that no worker error cancels, every work item of the cross
\* product is sent on the work queue exactly once, received exactly once and
\* processed exactly once, and when the workers have finished the tracker's
\* count is |platforms| x |variations|; in no run is an item sent, received
\* or processed twice, or held by two workers.
C1_ExactlyOnce ==
  /\ \A i \in 1..totalOperations :
       enq[i] <= 1 /\ taken[i] <= enq[i] /\ processed[i] <= taken[i]
  /\ \A w, v \in Workers : (w # v /\ HoldsItem(w) /\ HoldsItem(v)) => work[w] # work[v]
  /\ tracker.count <= totalOperations
  /\ (pcMain \in {"collect", "done"} /\ NoWorkerError) =>
       /\ \A i \in 1..totalOperations : enq[i] = 1 /\ taken[i] = 1 /\ processed[i] = 1
       /\ tracker.count = totalOperations

\* A run over several items, which no worker error cancelled, has returned
\* its results
C1_Witness ==
  /\ pcMain = "done" /\ ~ret.nil
  /\ NoWorkerError
  /\ totalOperations > 1
  /\ tracker.count = totalOperations

\* C2: the aggregate never holds two profiles with the same URL, and every
\* URL the collection loop has seen is held exactly once.
C2_NoDuplicateURL ==
  /\ \A i, j \in 1..Len(results.Profiles) :
       i # j => results.Profiles[i].URL # results.Profiles[j].URL
  /\ ProfileURLs = processedProfiles
  /\ results.ProfilesFound = Cardinality(processedProfiles)

\* The result for the query itself ("J S") reaches the collection loop after
\* the result for its variation "js", whose URL is the same, has been kept
C2_Witness ==
  /\ pcMain = "collect"
  /\ resultsChan # <<>>
  /\ Head(resultsChan).URL \in processedProfiles
  /\ Head(resultsChan).Username = Term(1)
  /\ \E i \in 1..Len(results.Profiles) :
       /\ results.Profiles[i].URL = Head(resultsChan).URL
       /\ results.Profiles[i].Username = Term(2)

\* C3: when SearchProfilesSequentially returns an error it still returns a
\* non-nil result.
C3_PartialResults == (ret.returned /\ ret.err # "") => ~ret.nil

\* C4: in a run that no worker error cancels, the returned error is the
\* summary error if some work item finished with an error, and otherwise
\* nil unless the save failed.
C4_SummaryError ==
  (ret.returned /\ NoWorkerError) =>
    /\ itemFailed => (~ret.nil /\ ret.err = "encountered errors during scanning")
    /\ ~itemFailed => ret.err \in {"", "error saving results"}

\* C5: once the feeder has exited, the work queue is closed.
C5_FeederCloses == feederPc = "exited" => workClosed

\* A worker receiving from a work queue that is empty, not closed, and whose
\* only sender has exited
BlockedForever(w) ==
  /\ wpc[w] = "recv"
  /\ workChan = <<>>
  /\ ~workClosed
  /\ feederPc = "exited"

\* C6: after a cancellation no worker stays blocked forever receiving from
\* the work queue.
C6_NoWorkerBlocked == \A w \in Workers : ~BlockedForever(w)

\* C7: once a worker has started, the limiter is the one built with
\* scanRateLimit and burst maxConcurrentScans, its bucket holds between 0
\* and burst tokens, and the pipelines started by all workers are at most
\* the permits granted: the permits not yet used are those of the workers
\* about to start their pipeline.
C7_SharedLimiter ==
  /\ (\E w \in Workers : wpc[w] # "idle") =>
       /\ limiter.limit = scanRateLimit
       /\ limiter.burst = maxConcurrentScans
  /\ limiter.tokens \in 0..limiter.burst
  /\ pipelinesStarted <= permitsGranted
  /\ permitsGranted - pipelinesStarted = Cardinality({w \in Workers : wpc[w] = "process"})

\* Every item of a non-empty work set went through the pipeline, each on a
\* permit of the shared bucket
C7_Witness ==
  /\ totalOperations > 1
  /\ pipelinesStarted = totalOperations
  /\ permitsGranted = totalOperations
  /\ limiter.tokens = maxConcurrentScans - totalOperations

\* The failure of a fetch at transport level: a request that could not be
\* built or sent, in ValidateProfile or in the second request
TransportLevel(fetch) ==
  \/ fetch.v.reqErr
  \/ fetch.v.doErr
  \/ fetch.v.status = StatusOK /\ fetch.x \in {"reqErr", "doErr"}

\* C8: every attempt of processSingleProfile that is followed by another
\* attempt failed at transport level (an attempt that got 404, 403 or 429 is
\* the last one).
C8_RetryOnlyTransport ==
  rPc = "called" =>
    \A k \in 1..(Len(rAttempts) - 1) : TransportLevel(rFetches[k])

AllTransportFailures == \A k \in 1..maxRetries : rFetches[k].v.doErr

C10_ConfidenceBounds == vPc = "returned" => vResult.Confidence \in 0..100

\* A verified Twitter account (0.99) with a cross-platform indicator: the
\* sum exceeds 1.0 and is capped
C10_Witness ==
  /\ vPc = "returned"
  /\ vPlatform.Name = "Twitter"
  /\ vResult.IsValid
  /\ \E i \in 1..Len(vResult.Markers) : vResult.Markers[i] = "Verified account"
  /\ \E i \in 1..Len(vResult.Markers) : vResult.Markers[i] = "Found user posts"
  /\ vResult.Confidence = 100

\* ValidateProfile got a response to its request
Answered == ~vResp.reqErr /\ ~vResp.doErr

\* One of the generic not-found phrases occurs in the body, in any case
GenericPhraseIn(body) ==
  \E i \in 1..Len(nonExistentPhrases) : ContainsFold(body, nonExistentPhrases[i])

\* The negative signals of the platform's case of the switch
HardNegativeSignal(platform, resp) ==
  CASE platform.Name \in {"Twitter", "X"} ->
         Contains(resp.body, "''This account doesn't exist''") \/ Contains(resp.body, "User not found")
    [] platform.Name = "Instagram" ->
         Contains(resp.body, "Sorry, this page") /\ Contains(resp.body, "isn't available")
    [] platform.Name = "Facebook" ->
         \/ Contains(resp.body, "content not found")
         \/ Contains(resp.body, "page you requested cannot be displayed")
         \/ resp.finalURL = "facebook.com/pages_reaction_units"
    [] platform.Name = "LinkedIn" ->
         Contains(resp.body, "page not found") \/ Contains(resp.body, "this page doesn't exist")
    [] platform.Name = "Reddit" ->
         Contains(resp.body, "Sorry, nobody on Reddit goes by that name")
    [] OTHER -> FALSE

\* The markers appended by the body analysis of a 200 response
OnlyRedirectMarker ==
  \A i \in 1..Len(vResult.Markers) : vResult.Markers[i] = "Redirected to"

\* C11: a response with status 404 makes ValidateProfile return IsValid =
\* false from the status switch: confidence 0, the 404 reason, no profile
\* type, and no marker other than the redirect marker set before the switch,
\* whatever the platform and the body.
C11_NotFoundFastPath ==
  (vPc = "returned" /\ Answered /\ vResp.status = StatusNotFound) =>
    /\ ~vResult.IsValid
    /\ vResult.Confidence = 0
    /\ vResult.ErrorReason = "Profile does not exist (404)"
    /\ vResult.ProfileType = ""
    /\ OnlyRedirectMarker

\* A 404 response whose body holds a generic not-found phrase
C11_Witness ==
  /\ vPc = "returned" /\ Answered
  /\ vResp.status = StatusNotFound
  /\ GenericPhraseIn(vResp.body)

\* One of the failure modes of ValidateProfile
FailureMode ==
  \/ vResp.reqErr
  \/ vResp.doErr
  \/ vResp.status # StatusOK
  \/ vResp.readErr
  \/ GenericPhraseIn(vResp.body)
  \/ HardNegativeSignal(vPlatform, vResp)

\* C12: every failure mode of ValidateProfile gives IsValid = false with a
\* non-empty ErrorReason, and a valid outcome has an empty ErrorReason.
C12_FailureReason ==
  vPc = "returned" =>
    /\ FailureMode => (~vResult.IsValid /\ vResult.ErrorReason # "")
    /\ vResult.IsValid => vResult.ErrorReason = ""
    /\ ~vResult.IsValid => vResult.ErrorReason # ""

\* A 200 response of Reddit that says the user does not exist
C12_Witness ==
  /\ vPc = "returned" /\ Answered
  /\ vResp.status = StatusOK /\ ~vResp.readErr
  /\ vPlatform.Name = "Reddit"
  /\ ~GenericPhraseIn(vResp.body)
  /\ HardNegativeSignal(vPlatform, vResp)
  /\ ~vResult.IsValid

\* C13, as stated: IsValid is true exactly when the status is 200 and no
\* hard negative signal was found.
C13_Original ==
  vPc = "returned" =>
    (vResult.IsValid <=>
       /\ Answered
       /\ vResp.status = StatusOK
       /\ ~GenericPhraseIn(vResp.body)
       /\ ~HardNegativeSignal(vPlatform, vResp))

\* C13, amended: IsValid is true exactly when the status is 200, the body
\* could be read and no hard negative signal was found.
C13_IsValidExactly ==
  vPc = "returned" =>
    (vResult.IsValid <=>
       /\ Answered
       /\ vResp.status = StatusOK
       /\ ~vResp.readErr
       /\ ~GenericPhraseIn(vResp.body)
       /\ ~HardNegativeSignal(vPlatform, vResp))

\* A 200 response whose body holds a platform marker and no negative signal
C13_Witness ==
  /\ vPc = "returned" /\ Answered
  /\ vResp.status = StatusOK /\ ~vResp.readErr
  /\ vPlatform.Name = "LinkedIn"
  /\ Contains(vResp.body, "experience-section")
  /\ vResult.IsValid

\* C14: status 401, 403 or 429 gives IsValid = false with confidence 0.3;
\* status 404 or 410 gives IsValid = false from the status switch, without
\* body analysis.
C14_StatusFastPaths ==
  (vPc = "returned" /\ Answered) =>
    /\ vResp.status \in {401, StatusForbidden, StatusTooManyRequests} =>
         (~vResult.IsValid /\ vResult.Confidence = 30)
    /\ vResp.status \in {StatusNotFound, 410} =>
         /\ ~vResult.IsValid
         /\ vResult.Confidence = 0
         /\ vResult.ErrorReason # "Profile likely doesn't exist: Found phrase"

\* C15: for every non-empty input, also one made of white space only,
\* GetNameVariations returns a non-empty collection, which holds the lower
\* case form of the first token when there is one.
C15_NonEmptyResult ==
  (nPc = "returned" /\ nName # <<>>) =>
    /\ nResult # {}
    /\ Fields(nName) # <<>> => ToLower(Fields(nName)[1]) \in nResult

\* C16: for every input with at least one token, the collection returned by
\* GetNameVariations holds the trimmed input and the lower case form of the
\* whole trimmed input.
C16_OriginalAndLower ==
  (nPc = "returned" /\ Fields(nName) # <<>>) =>
    /\ TrimSpace(nName) \in nResult
    /\ ToLower(TrimSpace(nName)) \in nResult

\* The scan of the empty username
EmptyScan == searchTerms = <<>>

\* C17: GetNameVariations of the empty string is empty, and in the scan of
\* the empty username no work item is ever sent or held, no permit is asked
\* for, no pipeline runs and no result is sent; the workers are started and
\* exit, the scan always goes on until it has returned, and it returns a
\* non-nil result with ProfilesFound = 0 and an empty profile list.
C17_EmptyInput ==
  /\ \A y \in CurrentYears : GetNameVariations(<<>>, y) = {}
  /\ EmptyScan =>
       /\ totalOperations = 0
       /\ workChan = <<>> /\ resultsChan = <<>>
       /\ \A w \in Workers : wpc[w] \in {"idle", "recv", "done"}
       /\ permitsGranted = 0 /\ pipelinesStarted = 0
       /\ NoWorkerError
       /\ pcMain = "done" \/ ENABLED Next
       /\ ret.returned =>
            /\ ~ret.nil
            /\ results.ProfilesFound = 0
            /\ results.Profiles = <<>>

\* The scan of the empty username has returned after its workers were
\* started and have exited
C17_Witness ==
  /\ EmptyScan
  /\ ret.returned /\ ~ret.nil
  /\ \A w \in Workers : wpc[w] = "done"
  /\ results.ProfilesFound = 0

\* The list is in non-decreasing order of platform name
SortedByPlatform(profiles) ==
  \A i, j \in 1..Len(profiles) :
    i < j => NameRank[profiles[i].Platform] <= NameRank[profiles[j].Platform]

\* C18: whenever SearchProfilesSequentially returns a result, its profile
\* list is in non-decreasing order of platform name and still holds exactly
\* the profiles the collection loop kept.
C18_SortedOnReturn ==
  (ret.returned /\ ~ret.nil) =>
    /\ SortedByPlatform(results.Profiles)
    /\ Len(results.Profiles) = results.ProfilesFound
    /\ ProfileURLs = processedProfiles

\* A result was returned whose profiles had been kept in another order than
\* the sorted one (the flushed batch holds them in the order they were kept)
C18_Witness ==
  /\ ret.returned /\ ~ret.nil
  /\ Len(results.Profiles) >= 2
  /\ Len(mm.files) = 1
  /\ mm.files[1] # results.Profiles

\* C19: detectHardware gives between 3 and 10 workers on every hardware.
C19_WorkerCount == hPc = "detected" => hAcc.maxWorkers \in 3..10

\* C20: the buffer of a memoryManager never holds more than maxItems
\* results, the capacity stays the one it was made with, and every batch
\* written holds between 1 and maxItems results.
C20_BufferBounded ==
  /\ tMm.maxItems >= 1
  /\ Len(tMm.items) <= tMm.maxItems
  /\ \A i \in 1..Len(tMm.files) : Len(tMm.files[i]) \in 1..tMm.maxItems
  /\ tAdds = 0 => (tMm.items = <<>> /\ tMm.files = <<>>)

\* An add on a full buffer of capacity 2 or more: the batch was written and
\* the buffer holds the new result alone
C20_Witness ==
  /\ tMm.maxItems >= 2
  /\ tAdds = tMm.maxItems + 1
  /\ Len(tMm.files) = 1
  /\ Len(tMm.files[1]) = tMm.maxItems
  /\ Len(tMm.items) = 1

\* The results of the batches written, in the order they were written
RECURSIVE Flatten(_)
Flatten(files) ==
  IF files = <<>> THEN <<>> ELSE Head(files) \o Flatten(Tail(files))

\* C21: during the collection the batches written followed by the buffer are
\* the results accepted so far, in order; once the function has returned a
\* result the buffer is empty and every accepted result is in exactly one
\* batch, whatever the capacity.
C21_FinalFlush ==
  /\ pcMain = "collect" => Flatten(mm.files) \o mm.items = results.Profiles
  /\ (ret.returned /\ ~ret.nil) =>
       /\ mm.items = <<>>
       /\ Len(Flatten(mm.files)) = Len(results.Profiles)
       /\ Distinct(Flatten(mm.files))
       /\ {Flatten(mm.files)[i] : i \in 1..Len(Flatten(mm.files))}
            = {results.Profiles[i] : i \in 1..Len(results.Profiles)}

\* More results than the capacity were accepted: a full batch was written
\* by add and the rest by the final flush
C21_Witness ==
  /\ ret.returned /\ ~ret.nil
  /\ Len(results.Profiles) > mm.maxItems
  /\ Len(mm.files) >= 2
  /\ Len(mm.files[1]) = mm.maxItems
  /\ mm.items = <<>>

\* C22: a result that a worker sends on the results channel has Exists =
\* true and an empty Error.
C22_OnlyCleanResults ==
  (rPc = "called" /\ rAfter.send) =>
    /\ rAttempts[Len(rAttempts)].Exists
    /\ IsEmpty(rAttempts[Len(rAttempts)].Error)

\* C23: a worker holds a work item only once it has a permit for it: no
\* worker that waits for a permit, or that has returned, holds an item taken
\* from the queue.
C23_PermitBeforeItem ==
  \A w \in Workers : work[w] # <<>> => wpc[w] = "process"

\* The phases of a run: the feeder is sending; the feeder has returned and
\* the workers empty the queue; the collection loop runs
Dispatching == feederPc = "feeding"
Draining == feederPc = "exited" /\ \E w \in Workers : wpc[w] \notin {"idle", "done"}
Aggregating == pcMain = "collect"

\* C24: the results channel is closed by the one closing goroutine, once,
\* and only when every worker has returned, so that no worker can send on
\* the closed channel; the collection loop runs only when the feeder and
\* every worker have returned, and until then nothing has been taken from
\* the results channel.
C24_CloseAfterWorkers ==
  /\ resultsClosed <=> closerPc = "exited"
  /\ resultsClosed => \A w \in Workers : wpc[w] = "done"
  /\ Aggregating => (~Dispatching /\ ~Draining /\ \A w \in Workers : wpc[w] = "done")
  /\ (Dispatching \/ Draining) =>
       /\ results.Profiles = <<>>
       /\ processedProfiles = {}

\* The collection loop has taken a result from the channel, which was
\* closed after both workers had sent a result
C24_Witness ==
  /\ Aggregating
  /\ resultsClosed
  /\ Len(results.Profiles) >= 1
  /\ \A w \in Workers : wpc[w] = "done"
  /\ pipelinesStarted = totalOperations

\* The last two digits of a year, written with two digits
TwoDigits(y) == <<DigitChar((y % 100) \div 10), DigitChar(y % 10)>>

\* C27: for a name of two or more tokens every pattern that takes numbers
\* occurs with the four-digit form and with the two-digit form of every year
\* of the last 30; for a single-token name the lower-case token occurs with
\* the two-digit form of every year of the last 20, and with no one-digit
\* suffix.
C27_YearSuffixForms ==
  (nPc = "returned" /\ Fields(nName) # <<>>) =>
    LET parts == Fields(nName)
        lowerFirst == ToLower(parts[1])
        lowerLast == ToLower(parts[Len(parts)])
    IN IF Len(parts) > 1
       THEN \A pattern \in commonNumberPatterns(lowerFirst, lowerLast) :
              \A y \in (nYear - 30)..nYear :
                /\ pattern \o Itoa(y) \in nResult
                /\ pattern \o TwoDigits(y) \in nResult
       ELSE /\ \A y \in (nYear - 20)..nYear : lowerFirst \o TwoDigits(y) \in nResult
            /\ \A d \in 0..9 : lowerFirst \o <<DigitChar(d)>> \notin nResult

\* C29: between the iterations of the collection loop and in every result
\* returned, ProfilesFound is the length of the profile list and every
\* profile of the list has Exists = true.
C29_CountMatchesList ==
  /\ results.ProfilesFound = Len(results.Profiles)
  /\ \A i \in 1..Len(results.Profiles) : results.Profiles[i].Exists

\* A result with several profiles was returned
C29_Witness ==
  /\ ret.returned /\ ~ret.nil
  /\ results.ProfilesFound >= 2
  /\ Len(results.Profiles) = results.ProfilesFound
  /\ Cardinality(processedProfiles) = results.ProfilesFound

\* A worker that is about to send its result finds room in resultsChan
SendNeverBlocks ==
  (\E w \in Workers : wpc[w] = "process") => Len(resultsChan) < ResultsChanCap

\* C28: without cancellation no worker ever finds the results channel full
\* when it has a result to send, and every run reaches Done: the workers
\* have returned, the results channel is closed and empty, and the function
\* has returned a result.
C28_EventuallyDone ==
  /\ []SendNeverBlocks
  /\ <>(/\ pcMain = "done"
        /\ ret.returned /\ ~ret.nil
        /\ \A w \in Workers : wpc[w] = "done"
        /\ feederPc = "exited"
        /\ resultsClosed /\ resultsChan = <<>>)

\* Every work item gave a result, and all of them are in the results
\* channel when the last worker has returned and the collection loop has
\* not started
C28_Witness ==
  /\ totalOperations > 1
  /\ Len(resultsChan) = totalOperations
  /\ \A w \in Workers : wpc[w] = "done"
  /\ pcMain = "gwait"

\* The place of a result in a list that holds it
IndexOf(list, x) == CHOOSE i \in 1..Len(list) : list[i] = x

\* C25: in the list returned, two profiles of the same platform are in the
\* order in which the collection loop accepted them (the order in which they
\* were handed to the memoryManager).
C25_StableSort ==
  (ret.returned /\ ~ret.nil) =>
    \A i, j \in 1..Len(results.Profiles) :
      (i < j /\ results.Profiles[i].Platform = results.Profiles[j].Platform) =>
        IndexOf(Flatten(mm.files), results.Profiles[i])
          < IndexOf(Flatten(mm.files), results.Profiles[j])


\* A text in which white space occurs only as single spaces between other
\* characters; white space is that of HTML and of the expression \s
Normalized(text) ==
  /\ \A i \in 1..Len(text) : ReSpace(text[i]) => text[i] = " "
  /\ \A i \in 1..(Len(text) - 1) : ~(ReSpace(text[i]) /\ ReSpace(text[i + 1]))
  /\ text # <<>> => (~ReSpace(text[1]) /\ ~ReSpace(text[Len(text)]))

\* C26: after extractRecentActivity and extractConnections each list has at
\* most 5 entries, one for every element among the first 5 matched whose
\* text is not white space only; every entry is non-empty and
\* whitespace-normalized, an activity entry has at most 100 characters and a
\* connection entry at most 50; a list whose selector is empty is untouched.
C26_ExtractBounded ==
  ePc = "extracted" =>
    LET considered == {i \in 1..Min(5, Len(eMatched)) : cleanText(eMatched[i]) # <<>>}
        activity == eResult.RecentActivity
        connections == eResult.Connections
    IN /\ Len(activity) <= 5
       /\ Len(connections) <= 5
       /\ HasActivitySelector(ePlatform) => Len(activity) = Cardinality(considered)
       /\ HasConnectionsSelector(ePlatform) => Len(connections) = Cardinality(considered)
       /\ \A i \in 1..Len(activity) :
            activity[i] # <<>> /\ Normalized(activity[i]) /\ Len(activity[i]) <= 100
       /\ \A i \in 1..Len(connections) :
            connections[i] # <<>> /\ Normalized(connections[i]) /\ Len(connections[i]) <= 50
       /\ ~HasActivitySelector(ePlatform) => activity = <<>>
       /\ ~HasConnectionsSelector(ePlatform) => connections = <<>>

\* More than 5 elements matched, none of them blank: both lists are full, an
\* activity entry and a connection entry were truncated and one was cleaned
C26_Witness ==
  /\ ePc = "extracted"
  /\ Len(eMatched) > 5
  /\ \A i \in 1..Len(eMatched) : eMatched[i] # BlankText
  /\ Len(eResult.RecentActivity) = 5
  /\ Len(eResult.Connections) = 5
  /\ \E i \in 1..5 : Len(eResult.RecentActivity[i]) = 100
  /\ \E i \in 1..5 : Len(eResult.Connections[i]) = 50
  /\ \E i \in 1..5 : eResult.RecentActivity[i] = <<"a", " ", "b", VT, VT, "c">>

\* The next step of goroutine g reads or writes a field of the rateTracker
AccessesField(g) ==
  kPc[g] \in {"setCurrentPlatform", "increment", "update", "readPlatform", "getRate"}

\* C30: every read and every write of a rateTracker field by a worker or by
\* the display goroutine happens while that goroutine holds the tracker's
\* mutex, and lastCount <= count in every state.
C30_AccessUnderMutex ==
  /\ \A g \in TrackerUsers : AccessesField(g) => kMu = g
  /\ kTracker.lastCount <= kTracker.count

====
